---------------------------- MODULE Spec2Model ----------------------------
(***************************************************************************)
(* A model of WPMv2 (src/WPMv2.js): the dependency resolver and the        *)
(* ordering loop of WPMv2.findCompletePackageTreeSorted, and the install   *)
(* scheduler of WPMv2.require with its registry of running requires.       *)
(*                                                                         *)
(* JavaScript runs every piece of code between two awaits to completion,   *)
(* so each action below is one such synchronous segment of a handler; the  *)
(* order in which suspended segments resume is left open.                  *)
(***************************************************************************)
EXTENDS Integers, Sequences, FiniteSets, TLC

(***************************************************************************)
(* Bounds of the model.                                                    *)
(***************************************************************************)
\* the package names that exist in the repositories
Names == {"A", "B", "C"}
\* a fixed enumeration order of the names (the order of a Map's keys)
NameOrder == <<"A", "B", "C">>
\* most dependency edges (hard plus optional) a repository world declares
MaxEdges == 2
\* longest package list handed to findCompletePackageTreeSorted on its own
MaxPackages == 2

VARIABLES
    \* ---- repository contents (the descriptors fetched from repositories)
    dependencyMap,          \* name -> set of hard dependency names
    optionalDependencyMap,  \* name -> set of optional dependency names
    \* ---- one call of findCompletePackageTreeSorted
    packages,               \* the requested package names, in order
    alreadySorting,         \* names whose addPackage passed the guard
    convertedPackages,      \* the closure, in the order packages were added
    sortedPackages,         \* the order built by the ordering loop
    lastLength,             \* convertedPackages.length after the last pass
    calls,                  \* per requested entry: its stack of addPackage frames
    fetchFailed,            \* names whose descriptor fetch threw
    treePc,                 \* "call", "resolve", "sort", "done" ("off": not used)
    \* ---- the hosting document and the install scheduler (WPMv2.require)
    script,                 \* name -> the names its script passes to wpm.require
    onAllInstalled,         \* names whose script calls wpm.onAllInstalled(callback)
    dom,                    \* names of the packages attached to the document
    live,                   \* names carrying the transient-wpm-live marker
    attachCount,            \* name -> number of times it was inserted
    bootCount,              \* name -> number of times its scripts were run
    requires,               \* every call of WPMv2.require, in call order
    tasks,                  \* every multithreadedFetchPackage promise created
    runningRequiresPromiseMap,   \* the registered packagePromiseMaps (by call)
    allInstalledCallbacksStack,  \* one callback list per running top-level call
    invoked,                \* the all-installed callbacks called so far, in order
    runningCallbacks,       \* the callbacks called whose promise is still pending
    failures,               \* number of failed fetches so far
    packageInstalled,       \* the tasks that dispatched wpm.packageInstalled
    \* ---- the options of one package on its way through a require call
    entryKind,              \* how the package entered the call
    entryOptions,           \* the option fields the caller's entry carries
    overrideOptions,        \* the overrideOptions argument of WPMv2.require
    wpmPackage,             \* the option fields of the WPMPackage object
    options,                \* what the install task uses for the package
    installedWith,          \* what the install task did with the package
    optionsPc,              \* where the package is on that way ("off": unused)
    localPackageDom,        \* the document has a package of that name
    parentOptions,          \* the options of the entry a dependency hangs on
    fetchRepository,        \* where the descriptor of the package is fetched
    \* ---- WPMv2.fetchDom and its cache
    clock,                  \* Date.now()
    domCache,               \* url -> the cached promise (index into fetches, 0: none)
    fetches,                \* every fetchDOMPromise started
    fetchDomCalls,          \* every call of WPMv2.fetchDom
    assetsCache,            \* url -> {assets, timestamp} (assets 0: none)
    fetchAssetsCalls,       \* every call of WPMv2.fetchAssets
    aliasCalls,             \* every call of WPMv2.fetchDom with an alias
    \* ---- the asset sync of one install task
    packageAssets,          \* wpmPackage.assets
    repoAssets,             \* the manifest of the repository: name -> hash
    localAssets,            \* the manifest of the document: name -> hash
    assetPromises,          \* asset -> the state of its promise
    formData,               \* the assets appended to the POST so far
    posts,                  \* the POSTs issued
    syncPc,                 \* where the install task is ("off": unused)
    syncRequires,           \* the require calls that await the task
    \* ---- addRepo: the packages of a whole repository
    repoPackages,           \* the package elements of the repository document
    repoIndex,              \* the element the loop of addRepo is at
    repoPc,                 \* where addRepo is ("off": unused)
    \* ---- WPMBoot.wpmv2_bootloader
    bootConfig,             \* the boot configuration of the document
    bootIndex,              \* the require step the loop is at
    bootPc,                 \* where the bootloader is ("off": unused)
    bootLog,                \* the require calls started and completed so far
    loadedCallbacks,        \* WPMBoot.loadedCallbacks
    isLoaded,               \* WPMBoot.isLoaded
    onLoadedCalls,          \* the number of calls of WPMBoot.onLoaded so far
    loadedInvoked           \* the callbacks called so far, in order

treeVars == <<packages, alreadySorting, convertedPackages, sortedPackages,
              lastLength, calls, fetchFailed, treePc>>
worldVars == <<dependencyMap, optionalDependencyMap, script, onAllInstalled>>
callbackVars == <<invoked, runningCallbacks>>
schedVars == <<dom, live, attachCount, bootCount, requires, tasks,
               runningRequiresPromiseMap, allInstalledCallbacksStack,
               invoked, runningCallbacks, failures, packageInstalled>>
optionsInput == <<entryKind, entryOptions, overrideOptions, localPackageDom,
                  parentOptions>>
optionVars == <<optionsInput, wpmPackage, options, installedWith, optionsPc,
                fetchRepository>>
cacheVars == <<clock, domCache, fetches, fetchDomCalls, assetsCache,
               fetchAssetsCalls, aliasCalls>>
syncVars == <<packageAssets, repoAssets, localAssets, assetPromises, formData,
              posts, syncPc, syncRequires>>
repoVars == <<repoPackages, repoIndex, repoPc>>
loadedVars == <<loadedCallbacks, isLoaded, onLoadedCalls, loadedInvoked>>
bootVars == <<bootConfig, bootIndex, bootPc, bootLog, loadedVars>>
\* the variables neither the resolver nor the scheduler touches
otherVars == <<optionVars, cacheVars, syncVars, repoVars, bootVars>>
vars == <<worldVars, treeVars, schedVars, otherVars>>

(***************************************************************************)
(* Helpers on sequences.                                                   *)
(***************************************************************************)
Range(s) == {s[i] : i \in DOMAIN s}

\* the elements of set S as a sequence, in NameOrder
SeqOf(S) == SelectSeq(NameOrder, LAMBDA n : n \in S)

\* s without its element at position i (Array.prototype.splice(i, 1))
Splice(s, i) == SubSeq(s, 1, i - 1) \o SubSeq(s, i + 1, Len(s))

\* first position of x in s, 0 when absent (Array.prototype.indexOf, from 1)
IndexOf(s, x) ==
    IF x \in Range(s) THEN CHOOSE i \in DOMAIN s : s[i] = x /\ \A j \in 1..(i-1) : s[j] # x
    ELSE 0

\* the one element of a singleton set
The(S) == CHOOSE x \in S : TRUE

\* Op(a, b, c) with the arguments evaluated once, before the call, as a
\* JavaScript call evaluates them
Call3(Op(_, _, _), a, b, c) == The({Op(x[1], x[2], x[3]) : x \in {<<a, b, c>>}})

Call5(Op(_, _, _, _, _), a, b, c, d, e) ==
    The({Op(x[1], x[2], x[3], x[4], x[5]) : x \in {<<a, b, c, d, e>>}})

NoDuplicates(s) == \A i, j \in DOMAIN s : s[i] = s[j] => i = j

\* all sequences over S of length at most n
SeqsUpTo(S, n) == UNION {[1..k -> S] : k \in 0..n}


(***************************************************************************)
(* WPMv2.findCompletePackageTreeSorted: the ordering loop.                 *)
(***************************************************************************)
\* WPMv2.hasPackage: packages are compared by name
hasPackage(pkgs, name) == \E i \in DOMAIN pkgs : pkgs[i] = name

\* ready, had the loop over dependencyMap been left out
readyIgnoringHard(pkg, sorted, converted) ==
    \A dep \in optionalDependencyMap[pkg] :
        ~(~hasPackage(sorted, dep) /\ hasPackage(converted, dep))

\* ready, had the loop over optionalDependencyMap been left out
readyIgnoringOptional(pkg, sorted, converted) ==
    \A dep \in dependencyMap[pkg] : hasPackage(sorted, dep)

\* ready, had a hard dependency only blocked while it is still to be placed
readyHardIfPresent(pkg, sorted, converted) ==
    /\ \A dep \in dependencyMap[pkg] :
          ~(~hasPackage(sorted, dep) /\ ~hasPackage(converted, dep))
    /\ \A dep \in optionalDependencyMap[pkg] :
          ~(~hasPackage(sorted, dep) /\ hasPackage(converted, dep))

\* the filter callback of the ordering loop
ready(pkg, sorted, converted) ==
    /\ \A dep \in dependencyMap[pkg] : hasPackage(sorted, dep)
    /\ \A dep \in optionalDependencyMap[pkg] :
          ~(~hasPackage(sorted, dep) /\ hasPackage(converted, dep))

\* s from its last element to its first
RECURSIVE Reverse(_)
Reverse(s) == IF s = <<>> THEN <<>> ELSE Append(Reverse(Tail(s)), Head(s))

\* mutant of packagesWithDependenciesInstalled: the ready packages, last
\* first
packagesReadyLastFirst(converted, sorted) ==
    Reverse(SelectSeq(converted, LAMBDA pkg : ready(pkg, sorted, converted)))

\* convertedPackages.filter(...)
packagesWithDependenciesInstalled(converted, sorted) ==
    SelectSeq(converted, LAMBDA pkg : ready(pkg, sorted, converted))

\* the forEach that pushes each ready package and splices it out
RECURSIVE placeAll(_, _, _)
placeAll(readyPkgs, sorted, converted) ==
    IF readyPkgs = <<>> THEN [sorted |-> sorted, converted |-> converted]
    ELSE Call3(placeAll, Tail(readyPkgs), Append(sorted, Head(readyPkgs)),
               Splice(converted, IndexOf(converted, Head(readyPkgs))))

\* one iteration of the while loop's body, up to the progress test
sortPass(converted, sorted) ==
    Call3(placeAll, packagesWithDependenciesInstalled(converted, sorted),
          sorted, converted)

\* the progress test, had it never broken out of the loop
neverGivesUp(converted, last) == FALSE

\* the progress test that breaks out of the loop
notAbleToAddMore(converted, last) == Len(converted) = last

\* the whole loop, had it returned nothing when it could not place all
RECURSIVE sortLoopAllOrNothing(_, _, _)
sortLoopAllOrNothing(converted, sorted, last) ==
    IF Len(converted) = 0 THEN sorted
    ELSE The({IF notAbleToAddMore(r.converted, last) THEN <<>>
              ELSE sortLoopAllOrNothing(r.converted, r.sorted, Len(r.converted)) :
              r \in {sortPass(converted, sorted)}})

\* the whole loop: the returned sortedPackages
RECURSIVE sortLoop(_, _, _)
sortLoop(converted, sorted, last) ==
    IF Len(converted) = 0 THEN sorted
    ELSE The({IF notAbleToAddMore(r.converted, last) THEN r.sorted
              ELSE sortLoop(r.converted, r.sorted, Len(r.converted)) :
              r \in {sortPass(converted, sorted)}})

(***************************************************************************)
(* WPMv2.findCompletePackageTreeSorted: the resolver (addPackage).         *)
(***************************************************************************)
\* a suspended addPackage call: waiting for its descriptor ("fetch") or
\* walking its dependencies ("deps", todo = the dependencies still to add)
\* the dependencies recursed into, had the optional ones been among them
findAllAndOptionalDependencies(name) ==
    SeqOf(dependencyMap[name] \cup optionalDependencyMap[name])

Frame(name, pc, todo) == [name |-> name, pc |-> pc, todo |-> todo]

\* WPMv2.findAllDependencies: one package per entry of dependencyMap
findAllDependencies(name) == SeqOf(dependencyMap[name])

\* alreadySorting.push(name), had it been forgotten
alreadySortingNoPush(already, name) == already

\* alreadySorting.push(name)
alreadySortingPush(already, name) == Append(already, name)

\* a call of addPackage up to its first await: the guard on alreadySorting,
\* and the frame left waiting for getLatestPackageFromPackage
addPackage(already, name) ==
    IF ~(name \in Range(already))
    THEN [already |-> alreadySortingPush(already, name),
          frames  |-> <<Frame(name, "fetch", <<>>)>>]
    ELSE [already |-> already, frames |-> <<>>]

\* packages.map(async pkg => ...): every entry runs up to its first await
RECURSIVE mapPackages(_, _, _)
mapPackages(pkgs, already, acc) ==
    IF pkgs = <<>> THEN [already |-> already, calls |-> acc]
    ELSE LET e == addPackage(already, Head(pkgs)) IN
         mapPackages(Tail(pkgs), e.already, Append(acc, e.frames))

Top(stack) == stack[Len(stack)]
Pop(stack) == SubSeq(stack, 1, Len(stack) - 1)


(***************************************************************************)
(* The repository worlds: which package declares which dependencies.       *)
(***************************************************************************)
\* a dependency edge <<x, y>>: x declares y; no package names itself
Edges == {e \in Names \X Names : e[1] # e[2]}

depsOf(edges) == [n \in Names |-> {m \in Names : <<n, m>> \in edges}]

\* the scheduler's state while only findCompletePackageTreeSorted is studied
\* a property an options object does not have
Undefined == "undefined"

OptionsIdle ==
    /\ entryKind = Undefined /\ entryOptions = Undefined
    /\ overrideOptions = Undefined /\ wpmPackage = Undefined
    /\ options = Undefined /\ installedWith = Undefined
    /\ optionsPc = "off"
    /\ localPackageDom = FALSE /\ fetchRepository = Undefined
    /\ parentOptions = Undefined

CacheIdle ==
    /\ clock = 0 /\ domCache = <<>> /\ fetches = <<>> /\ fetchDomCalls = <<>>
    /\ assetsCache = <<>> /\ fetchAssetsCalls = <<>>
    /\ aliasCalls = <<>>

SyncIdle ==
    /\ packageAssets = <<>> /\ repoAssets = <<>> /\ localAssets = <<>>
    /\ assetPromises = <<>> /\ formData = <<>> /\ posts = 0
    /\ syncPc = "off" /\ syncRequires = <<>>

RepoIdle == repoPackages = <<>> /\ repoIndex = 0 /\ repoPc = "off"

BootIdle ==
    /\ bootConfig = <<>> /\ bootIndex = 0 /\ bootPc = "off" /\ bootLog = <<>>
    /\ loadedCallbacks = <<>> /\ isLoaded = FALSE
    /\ onLoadedCalls = 0 /\ loadedInvoked = <<>>

\* nothing but the resolver or the scheduler is in use
OthersIdle == OptionsIdle /\ CacheIdle /\ SyncIdle /\ RepoIdle /\ BootIdle

SchedIdle ==
    /\ script = [n \in Names |-> <<>>]
    /\ onAllInstalled = {}
    /\ dom = {} /\ live = {}
    /\ attachCount = [n \in Names |-> 0]
    /\ bootCount = [n \in Names |-> 0]
    /\ requires = <<>> /\ tasks = <<>>
    /\ runningRequiresPromiseMap = <<>>
    /\ allInstalledCallbacksStack = <<>>
    /\ invoked = <<>> /\ runningCallbacks = {}
    /\ failures = 0
    /\ packageInstalled = {}

(***************************************************************************)
(* One call of findCompletePackageTreeSorted, an await at a time.          *)
(***************************************************************************)
InitTree ==
    /\ \E hard \in SUBSET Edges, opt \in SUBSET Edges :
          /\ Cardinality(hard) + Cardinality(opt) <= MaxEdges
          /\ dependencyMap = depsOf(hard)
          /\ optionalDependencyMap = depsOf(opt)
    /\ packages \in SeqsUpTo(Names, MaxPackages)
    /\ alreadySorting = <<>> /\ convertedPackages = <<>>
    /\ sortedPackages = <<>> /\ lastLength = 0
    /\ calls = <<>> /\ fetchFailed = {}
    /\ treePc = "call"
    /\ SchedIdle /\ OthersIdle

\* the call itself: every requested entry enters addPackage and suspends
treeCall ==
    /\ treePc = "call"
    /\ LET m == mapPackages(packages, <<>>, <<>>) IN
         /\ alreadySorting' = m.already
         /\ calls' = m.calls
    /\ treePc' = "resolve"
    /\ UNCHANGED <<packages, convertedPackages, sortedPackages, lastLength,
                   fetchFailed, worldVars, schedVars, otherVars>>

\* getLatestPackageFromPackage returned the descriptor of entry i's package
getLatestPackageOk(i) ==
    /\ treePc = "resolve" /\ calls[i] # <<>> /\ Top(calls[i]).pc = "fetch"
    /\ LET f == Top(calls[i]) IN
         calls' = [calls EXCEPT ![i] =
                     Append(Pop(@), Frame(f.name, "deps", findAllDependencies(f.name)))]
    /\ UNCHANGED <<packages, alreadySorting, convertedPackages, sortedPackages,
                   lastLength, fetchFailed, treePc, worldVars, schedVars, otherVars>>

\* getLatestPackageFromPackage threw: the catch logs, addPackage returns
getLatestPackageFail(i) ==
    /\ treePc = "resolve" /\ calls[i] # <<>> /\ Top(calls[i]).pc = "fetch"
    /\ fetchFailed' = fetchFailed \cup {Top(calls[i]).name}
    /\ calls' = [calls EXCEPT ![i] = Pop(@)]
    /\ UNCHANGED <<packages, alreadySorting, convertedPackages, sortedPackages,
                   lastLength, treePc, worldVars, schedVars, otherVars>>

\* for (dependency of dependencies) await addPackage(dependency)
addPackageDependency(i) ==
    /\ treePc = "resolve" /\ calls[i] # <<>>
    /\ Top(calls[i]).pc = "deps" /\ Top(calls[i]).todo # <<>>
    /\ LET f == Top(calls[i])
           e == addPackage(alreadySorting, Head(f.todo)) IN
         /\ alreadySorting' = e.already
         /\ calls' = [calls EXCEPT ![i] =
                        Append(Pop(@), Frame(f.name, "deps", Tail(f.todo))) \o e.frames]
    /\ UNCHANGED <<packages, convertedPackages, sortedPackages, lastLength,
                   fetchFailed, treePc, worldVars, schedVars, otherVars>>

\* convertedPackages.push(wpmPackage), and addPackage returns
addPackagePush(i) ==
    /\ treePc = "resolve" /\ calls[i] # <<>>
    /\ Top(calls[i]).pc = "deps" /\ Top(calls[i]).todo = <<>>
    /\ convertedPackages' = Append(convertedPackages, Top(calls[i]).name)
    /\ calls' = [calls EXCEPT ![i] = Pop(@)]
    /\ UNCHANGED <<packages, alreadySorting, sortedPackages, lastLength,
                   fetchFailed, treePc, worldVars, schedVars, otherVars>>

\* Promise.all over the entries resolved: the ordering loop is set up
sortStart ==
    /\ treePc = "resolve" /\ \A i \in DOMAIN calls : calls[i] = <<>>
    /\ sortedPackages' = <<>>
    /\ lastLength' = Len(convertedPackages)
    /\ treePc' = "sort"
    /\ UNCHANGED <<packages, alreadySorting, convertedPackages, calls,
                   fetchFailed, worldVars, schedVars, otherVars>>

\* while (convertedPackages.length > 0): one iteration
sortIterate ==
    /\ treePc = "sort" /\ Len(convertedPackages) > 0
    /\ LET r == sortPass(convertedPackages, sortedPackages) IN
         /\ sortedPackages' = r.sorted
         /\ convertedPackages' = r.converted
         /\ IF notAbleToAddMore(r.converted, lastLength)
            THEN treePc' = "done" /\ UNCHANGED lastLength
            ELSE treePc' = "sort" /\ lastLength' = Len(r.converted)
    /\ UNCHANGED <<packages, alreadySorting, calls, fetchFailed, worldVars, schedVars, otherVars>>

\* the loop condition fails: return sortedPackages
sortReturn ==
    /\ treePc = "sort" /\ Len(convertedPackages) = 0
    /\ treePc' = "done"
    /\ UNCHANGED <<packages, alreadySorting, convertedPackages, sortedPackages,
                   lastLength, calls, fetchFailed, worldVars, schedVars, otherVars>>

NextTree ==
    \/ treeCall
    \/ \E i \in DOMAIN calls : getLatestPackageOk(i)
    \/ \E i \in DOMAIN calls : getLatestPackageFail(i)
    \/ \E i \in DOMAIN calls : addPackageDependency(i)
    \/ \E i \in DOMAIN calls : addPackagePush(i)
    \/ sortStart
    \/ sortIterate
    \/ sortReturn

SpecTree == InitTree /\ [][NextTree]_vars

\* every fetch settles and every resumed segment runs
FairSpecTree == SpecTree /\ WF_vars(NextTree)


(***************************************************************************)
(* findCompletePackageTreeSorted as one function of the request and of the *)
(* set F of names whose descriptor fetch throws: the entries are resolved  *)
(* one after the other (one of the interleavings above), then ordered.     *)
(***************************************************************************)
\* the entries, had a failed one made the rest be skipped
RECURSIVE addAllFailFast(_, _, _)
RECURSIVE addPackageRec(_, _, _)
addAllFailFast(names, st, F) ==
    IF names = <<>> THEN st
    ELSE IF Head(names) \in F THEN addPackageRec(Head(names), st, F)
    ELSE Call3(addAllFailFast, Tail(names), addPackageRec(Head(names), st, F), F)

\* for (x of xs) await addPackage(x)
RECURSIVE addAll(_, _, _)
addAll(names, st, F) ==
    IF names = <<>> THEN st
    ELSE Call3(addAll, Tail(names), addPackageRec(Head(names), st, F), F)

\* addPackage run to its return
addPackageRec(name, st, F) ==
    LET e == addPackage(st.already, name) IN
    IF e.frames = <<>> THEN st
    ELSE IF name \in F THEN [st EXCEPT !.already = e.already]
    ELSE LET st2 == addAll(findAllDependencies(name),
                           [st EXCEPT !.already = e.already], F) IN
         [st2 EXCEPT !.converted = Append(@, name)]

\* the names a call fetches, and the closure it builds
resolved(pkgs, F) == addAll(pkgs, [already |-> <<>>, converted |-> <<>>], F)

findCompletePackageTreeSorted(pkgs, F) ==
    LET c == resolved(pkgs, F).converted IN sortLoop(c, <<>>, Len(c))

(***************************************************************************)
(* WPMv2.require: the install scheduler.                                   *)
(***************************************************************************)
\* most top-level calls of WPMv2.require
MaxTop == 2
\* most fetches that fail in one behaviour
MaxFailures == 1

\* the package lists a caller passes to WPMv2.require
Requests == {SeqOf(S) : S \in SUBSET Names}

\* the repository worlds the scheduler is run against
Worlds == {
    \* three packages without dependencies; the scripts of A and B register
    \* an all-installed callback
    [hard |-> {}, opt |-> {}, script |-> [n \in Names |-> <<>>],
     registers |-> {"A", "B"}, inDocument |-> {}],
    \* a diamond: A and B both need C
    [hard |-> {<<"A", "C">>, <<"B", "C">>}, opt |-> {},
     script |-> [n \in Names |-> <<>>], registers |-> {}, inDocument |-> {}],
    \* A names B as optional and its script requires it: wpm.require("B")
    [hard |-> {<<"B", "C">>}, opt |-> {<<"A", "B">>},
     script |-> [n \in Names |-> IF n = "A" THEN <<"B">> ELSE <<>>],
     registers |-> {}, inDocument |-> {}],
    \* A names B as optional, no script requires anything, and the document
    \* was saved with C in it (the live marker is transient)
    [hard |-> {}, opt |-> {<<"A", "B">>}, script |-> [n \in Names |-> <<>>],
     registers |-> {}, inDocument |-> {"C"}],
    \* A and B need each other, C needs nothing
    [hard |-> {<<"A", "B">>, <<"B", "A">>}, opt |-> {},
     script |-> [n \in Names |-> <<>>], registers |-> {}, inDocument |-> {}],
    \* a plug-in: A's script requires C by package and repository, and C
    \* needs A
    [hard |-> {<<"C", "A">>}, opt |-> {},
     script |-> [n \in Names |-> IF n = "A" THEN <<"C">> ELSE <<>>],
     registers |-> {}, inDocument |-> {}] }

\* a packagePromiseMap: package name -> task (index into tasks)
EmptyMap == [n \in {} |-> 0]

\* a call of WPMv2.require, with the default bootstrap: true unless the
\* caller overrides it; "during" notes the top-level calls that had not
\* settled when this one was made, "after" the tasks that had failed by then
Require(top, pkgs, parent, during) ==
    [top |-> top, packages |-> pkgs, st |-> "resolving", map |-> EmptyMap,
     failed |-> {}, sorted |-> <<>>, parent |-> parent, during |-> during,
     after |-> {t \in DOMAIN tasks : tasks[t].st = "failed"},
     bootstrap |-> TRUE,
     popped |-> <<>>, callbacks |-> <<>>]

Task(name, owner, awaits) ==
    [name |-> name, owner |-> owner, st |-> "deps", awaits |-> awaits,
     nested |-> {}, alreadyInstalled |-> FALSE, ran |-> FALSE]

\* the lookup, had it never found another require's promise
foundPromiseNever(name, maps) == 0

\* for (promiseMap of runningRequiresPromiseMap) if (promiseMap.has(name)):
\* the promise of the first registered map that has the name, 0 for null
foundPromise(name, maps) ==
    LET hits == SelectSeq(maps, LAMBDA m : name \in DOMAIN m) IN
    IF hits = <<>> THEN 0 ELSE hits[1][name]

\* the promises awaited first, had the optional dependencies been left out
awaitedHardOnly(name, map) ==
    {map[d] : d \in dependencyMap[name] \cap DOMAIN map}

\* the promises a new task awaits first: packagePromiseMap.get(dependency)
\* for every hard and optional dependency the map holds at that moment
awaited(name, map) ==
    {map[d] : d \in (dependencyMap[name] \cup optionalDependencyMap[name])
                      \cap DOMAIN map}

\* for (pkg of completePackageTreeSorted): share the promise found, or start
\* multithreadedFetchPackage, which runs up to its first await
RECURSIVE schedule(_, _, _, _, _)
schedule(pkgs, r, map, ts, others) ==
    IF pkgs = <<>> THEN [map |-> map, tasks |-> ts]
    ELSE LET name == Head(pkgs)
             found == foundPromise(name, Append(others, map)) IN
         IF found # 0
         THEN Call5(schedule, Tail(pkgs), r, (name :> found) @@ map, ts, others)
         ELSE Call5(schedule, Tail(pkgs), r, (name :> (Len(ts) + 1)) @@ map,
                    Append(ts, Task(name, r, awaited(name, map))), others)

\* the top-level call on whose behalf call r runs
RECURSIVE RootOf(_)
RootOf(r) ==
    IF requires[r].top THEN r ELSE RootOf(tasks[requires[r].parent].owner)

\* the callback registered by task cb is called by call "by" (0: by
\* wpm.onAllInstalled itself); "unfinished" notes the packages of the
\* top-level call that installed cb's package whose task is still pending
Called(cb, by) ==
    [cb |-> cb, by |-> by,
     unfinished |-> {n \in DOMAIN requires[RootOf(tasks[cb].owner)].map :
                       tasks[requires[RootOf(tasks[cb].owner)].map[n]].st
                           \notin {"done", "failed"}}]

\* the callbacks started in one segment, had the loop not awaited each one
calledNowAll(list) == list

\* for (cb of allInstalledCallbacks) await cb(): one callback is called,
\* then the loop suspends
calledNow(list) == <<Head(list)>>

\* the loop over the callback list, from its start or from a resumed await
\* (running: the callbacks still pending at that moment)
callCallbacks(r, list, running) ==
    LET now == calledNow(list) IN
    /\ invoked' = invoked \o [i \in 1..Len(now) |-> Called(now[i], r)]
    /\ runningCallbacks' =
          running \cup {[cb |-> now[i], by |-> r] : i \in 1..Len(now)}

\* the callbacks the loop has still to call after this segment
notYetCalled(list) == SubSeq(list, Len(calledNow(list)) + 1, Len(list))

TopCalls == Cardinality({r \in DOMAIN requires : requires[r].top})

Settled(r) == requires[r].st \in {"done", "rejected"}

InitSched ==
    /\ \E w \in Worlds :
          /\ dependencyMap = depsOf(w.hard)
          /\ optionalDependencyMap = depsOf(w.opt)
          /\ script = w.script
          /\ onAllInstalled = w.registers
          /\ dom = w.inDocument
    /\ live = {}
    /\ attachCount = [n \in Names |-> 0]
    /\ bootCount = [n \in Names |-> 0]
    /\ requires = <<>> /\ tasks = <<>>
    /\ runningRequiresPromiseMap = <<>>
    /\ allInstalledCallbacksStack = <<>>
    /\ invoked = <<>> /\ runningCallbacks = {}
    /\ failures = 0
    /\ packageInstalled = {}
    /\ packages = <<>> /\ alreadySorting = <<>> /\ convertedPackages = <<>>
    /\ sortedPackages = <<>> /\ lastLength = 0
    /\ calls = <<>> /\ fetchFailed = {}
    /\ treePc = "off"
    /\ OthersIdle

\* a caller calls WPMv2.require(packages): it runs up to the await of
\* findCompletePackageTreeSorted
requireCall ==
    /\ TopCalls < MaxTop
    /\ \E pkgs \in Requests :
          requires' = Append(requires, Require(TRUE, pkgs, 0,
                         {q \in DOMAIN requires : requires[q].top /\ ~Settled(q)}))
    /\ UNCHANGED <<dom, live, attachCount, bootCount, tasks,
                   runningRequiresPromiseMap, allInstalledCallbacksStack,
                   failures, callbackVars, packageInstalled, worldVars,
                   treeVars, otherVars>>

\* a caller calls WPMv2.require(packages, {bootstrap: ...})
requireCallWithOptions ==
    /\ TopCalls < MaxTop
    /\ \E pkgs \in Requests : \E b \in BOOLEAN :
          requires' = Append(requires,
              [Require(TRUE, pkgs, 0,
                       {q \in DOMAIN requires : requires[q].top /\ ~Settled(q)})
                  EXCEPT !.bootstrap = b])
    /\ UNCHANGED <<dom, live, attachCount, bootCount, tasks,
                   runningRequiresPromiseMap, allInstalledCallbacksStack,
                   failures, callbackVars, packageInstalled, worldVars,
                   treeVars, otherVars>>

\* findCompletePackageTreeSorted returned with an empty request: return
requireNothing(r) ==
    /\ requires[r].st = "resolving" /\ Len(requires[r].packages) = 0
    /\ requires' = [requires EXCEPT ![r].st = "done"]
    /\ UNCHANGED <<dom, live, attachCount, bootCount, tasks,
                   runningRequiresPromiseMap, allInstalledCallbacksStack,
                   failures, callbackVars, packageInstalled, worldVars,
                   treeVars, otherVars>>

\* findCompletePackageTreeSorted returned (the fetches of F had failed): the
\* callback list and the packagePromiseMap are pushed, every package of the
\* order gets a promise, and the call awaits them all
requireSchedule(r) ==
    /\ requires[r].st = "resolving" /\ Len(requires[r].packages) > 0
    /\ \E F \in SUBSET Names :
          /\ failures + Cardinality(F) <= MaxFailures
          /\ \E res \in {resolved(requires[r].packages, F)} :
              /\ F \subseteq Range(res.already)
              /\ \E sorted \in {sortLoop(res.converted, <<>>, Len(res.converted))} :
                 \E s \in {schedule(sorted, r, EmptyMap, tasks,
                                [i \in DOMAIN runningRequiresPromiseMap |->
                                    requires[runningRequiresPromiseMap[i]].map])} :
                   /\ requires' = [requires EXCEPT ![r].st = "waiting",
                                                   ![r].map = s.map,
                                                   ![r].failed = F,
                                                   ![r].sorted = sorted]
                   /\ tasks' = s.tasks
          /\ failures' = failures + Cardinality(F)
    /\ allInstalledCallbacksStack' =
          IF requires[r].top
          THEN Append(allInstalledCallbacksStack, [owner |-> r, callbacks |-> <<>>])
          ELSE allInstalledCallbacksStack
    /\ runningRequiresPromiseMap' = Append(runningRequiresPromiseMap, r)
    /\ UNCHANGED <<dom, live, attachCount, bootCount, callbackVars, packageInstalled, worldVars,
                   treeVars, otherVars>>

\* WPMv2.bootstrap up to its await Promise.all(promises): the package's
\* script runs; its wpm.onAllInstalled(callback) pushes the callback on the
\* list on top of the stack (and calls it at once when there is none), and
\* its wpm.require(...) starts a nested WPMv2.require
bootstrap(t, ts) ==
    LET name == tasks[t].name IN
    /\ bootCount' = [bootCount EXCEPT ![name] = @ + 1]
    /\ IF name \notin onAllInstalled
       THEN UNCHANGED <<allInstalledCallbacksStack, invoked>>
       ELSE IF allInstalledCallbacksStack # <<>>
       THEN /\ allInstalledCallbacksStack' =
                  [allInstalledCallbacksStack
                      EXCEPT ![Len(allInstalledCallbacksStack)].callbacks = Append(@, t)]
            /\ UNCHANGED invoked
       ELSE /\ invoked' = Append(invoked, Called(t, 0))
            /\ UNCHANGED allInstalledCallbacksStack
    /\ IF script[name] = <<>>
       THEN /\ tasks' = [ts EXCEPT ![t].st = "boot"]
            /\ UNCHANGED requires
       ELSE /\ requires' = Append(requires, Require(FALSE, script[name], t, {}))
            /\ tasks' = [ts EXCEPT ![t].st = "boot",
                                   ![t].nested = {Len(requires) + 1}]

\* if (pkg.bootstrap): the packages of a call have the bootstrap of its
\* overrideOptions
pkgBootstrap(t) == requires[tasks[t].owner].bootstrap

\* the dependencies awaited are all installed, the package is not in the
\* document: getPackageDOM is called and awaited
taskFetch(t) ==
    /\ tasks[t].st = "deps"
    /\ \A a \in tasks[t].awaits : tasks[a].st = "done"
    /\ tasks[t].name \notin dom
    /\ tasks' = [tasks EXCEPT ![t].st = "fetch", ![t].ran = TRUE]
    /\ UNCHANGED <<dom, live, attachCount, bootCount, requires,
                   runningRequiresPromiseMap, allInstalledCallbacksStack,
                   failures, callbackVars, packageInstalled, worldVars,
                   treeVars, otherVars>>

\* the dependencies awaited are all installed, the package is in the
\* document already: nothing is attached; it is made live unless it is
taskAlreadyInstalled(t) ==
    /\ tasks[t].st = "deps"
    /\ \A a \in tasks[t].awaits : tasks[a].st = "done"
    /\ tasks[t].name \in dom
    /\ LET ts == [tasks EXCEPT ![t].alreadyInstalled = TRUE, ![t].ran = TRUE] IN
         IF tasks[t].name \in live \/ ~pkgBootstrap(t)
         THEN /\ tasks' = [ts EXCEPT ![t].st = "done"]
              /\ UNCHANGED <<bootCount, requires, allInstalledCallbacksStack,
                             invoked>>
         ELSE bootstrap(t, ts)
    /\ UNCHANGED <<dom, live, attachCount, runningRequiresPromiseMap,
                   runningCallbacks, failures, packageInstalled, worldVars,
                   treeVars, otherVars>>

\* a promise awaited first was rejected: Promise.all rejects, the await
\* throws and the task's own promise is rejected
taskDependencyRejected(t) ==
    /\ tasks[t].st = "deps"
    /\ \E a \in tasks[t].awaits : tasks[a].st = "failed"
    /\ tasks' = [tasks EXCEPT ![t].st = "failed"]
    /\ UNCHANGED <<dom, live, attachCount, bootCount, requires,
                   runningRequiresPromiseMap, allInstalledCallbacksStack,
                   failures, callbackVars, packageInstalled, worldVars,
                   treeVars, otherVars>>

\* getPackageDOM returned: the wpm-package element is built and inserted,
\* then WPMv2.bootstrap is called (a new element carries no live marker)
taskAttach(t) ==
    /\ tasks[t].st = "fetch"
    /\ dom' = dom \cup {tasks[t].name}
    /\ attachCount' = [attachCount EXCEPT ![tasks[t].name] = @ + 1]
    /\ IF pkgBootstrap(t)
       THEN bootstrap(t, tasks)
       ELSE /\ tasks' = [tasks EXCEPT ![t].st = "done"]
            /\ UNCHANGED <<bootCount, requires, allInstalledCallbacksStack,
                           invoked>>
    /\ UNCHANGED <<live, runningRequiresPromiseMap, runningCallbacks,
                   failures, packageInstalled, worldVars,
                   treeVars, otherVars>>

\* getPackageDOM threw: the task's promise is rejected
taskFetchFail(t) ==
    /\ tasks[t].st = "fetch"
    /\ failures < MaxFailures
    /\ failures' = failures + 1
    /\ tasks' = [tasks EXCEPT ![t].st = "failed"]
    /\ UNCHANGED <<dom, live, attachCount, bootCount, requires,
                   runningRequiresPromiseMap, allInstalledCallbacksStack,
                   callbackVars, packageInstalled, worldVars,
                   treeVars, otherVars>>

\* mutant of triggerOnPackageInstalled: the event is always dispatched
triggerAlways(task) == TRUE

\* the argument !alreadyInstalled of WPMv2.bootstrap
triggerOnPackageInstalled(task) == ~task.alreadyInstalled

\* the script's nested requires resolved: WPMv2.bootstrap dispatches
\* wpm.packageInstalled if asked to and returns, the live marker is set and
\* the task's promise is fulfilled
taskLive(t) ==
    /\ tasks[t].st = "boot"
    /\ \A q \in tasks[t].nested : requires[q].st = "done"
    /\ packageInstalled' =
          IF triggerOnPackageInstalled(tasks[t])
          THEN packageInstalled \cup {t} ELSE packageInstalled
    /\ live' = live \cup {tasks[t].name}
    /\ tasks' = [tasks EXCEPT ![t].st = "done"]
    /\ UNCHANGED <<dom, attachCount, bootCount, requires,
                   runningRequiresPromiseMap, allInstalledCallbacksStack,
                   failures, callbackVars, worldVars, treeVars, otherVars>>

\* a nested require rejected: WPMv2.bootstrap throws, and so does the task
taskBootstrapRejected(t) ==
    /\ tasks[t].st = "boot"
    /\ \E q \in tasks[t].nested : requires[q].st = "rejected"
    /\ tasks' = [tasks EXCEPT ![t].st = "failed"]
    /\ UNCHANGED <<dom, live, attachCount, bootCount, requires,
                   runningRequiresPromiseMap, allInstalledCallbacksStack,
                   failures, callbackVars, packageInstalled, worldVars,
                   treeVars, otherVars>>

\* await Promise.all(packagePromiseMap.values()) resolved: the map is
\* spliced out of the registry; a top-level call pops the list on top of the
\* stack and starts calling its callbacks
requireResolve(r) ==
    /\ requires[r].st = "waiting"
    /\ \A n \in DOMAIN requires[r].map : tasks[requires[r].map[n]].st = "done"
    /\ runningRequiresPromiseMap' =
          Splice(runningRequiresPromiseMap, IndexOf(runningRequiresPromiseMap, r))
    /\ IF ~requires[r].top
       THEN /\ requires' = [requires EXCEPT ![r].st = "done"]
            /\ UNCHANGED <<allInstalledCallbacksStack, callbackVars>>
       ELSE LET list == Top(allInstalledCallbacksStack).callbacks IN
            /\ allInstalledCallbacksStack' = Pop(allInstalledCallbacksStack)
            /\ IF list = <<>>
               THEN /\ requires' = [requires EXCEPT ![r].st = "done"]
                    /\ UNCHANGED callbackVars
               ELSE /\ callCallbacks(r, list, runningCallbacks)
                    /\ requires' = [requires EXCEPT ![r].st = "callbacks",
                                                    ![r].popped = list,
                                                    ![r].callbacks = notYetCalled(list)]
    /\ UNCHANGED <<dom, live, attachCount, bootCount, tasks, failures,
                   packageInstalled, worldVars,
                   treeVars, otherVars>>

\* await allInstalledCallback() resumed: the loop calls the next callback,
\* or ends and WPMv2.require returns
callbackReturn(r, c) ==
    /\ requires[r].st = "callbacks"
    /\ c \in runningCallbacks /\ c.by = r
    /\ IF requires[r].callbacks = <<>>
       THEN /\ runningCallbacks' = runningCallbacks \ {c}
            /\ requires' = [requires EXCEPT ![r].st = "done"]
            /\ UNCHANGED invoked
       ELSE /\ callCallbacks(r, requires[r].callbacks, runningCallbacks \ {c})
            /\ requires' = [requires EXCEPT
                               ![r].callbacks = notYetCalled(requires[r].callbacks)]
    /\ UNCHANGED <<dom, live, attachCount, bootCount, tasks, failures,
                   runningRequiresPromiseMap, allInstalledCallbacksStack,
                   packageInstalled, worldVars,
                   treeVars, otherVars>>

\* await Promise.all(packagePromiseMap.values()) rejected: the await throws
\* and WPMv2.require rejects; nothing after the await runs
requireReject(r) ==
    /\ requires[r].st = "waiting"
    /\ \E n \in DOMAIN requires[r].map : tasks[requires[r].map[n]].st = "failed"
    /\ requires' = [requires EXCEPT ![r].st = "rejected"]
    /\ UNCHANGED <<dom, live, attachCount, bootCount, tasks, failures,
                   runningRequiresPromiseMap, allInstalledCallbacksStack,
                   callbackVars, packageInstalled, worldVars,
                   treeVars, otherVars>>

Next ==
    \/ requireCall
    \/ \E r \in DOMAIN requires : requireNothing(r)
    \/ \E r \in DOMAIN requires : requireSchedule(r)
    \/ \E t \in DOMAIN tasks : taskFetch(t)
    \/ \E t \in DOMAIN tasks : taskAlreadyInstalled(t)
    \/ \E t \in DOMAIN tasks : taskDependencyRejected(t)
    \/ \E t \in DOMAIN tasks : taskAttach(t)
    \/ \E t \in DOMAIN tasks : taskFetchFail(t)
    \/ \E t \in DOMAIN tasks : taskLive(t)
    \/ \E t \in DOMAIN tasks : taskBootstrapRejected(t)
    \/ \E r \in DOMAIN requires : requireResolve(r)
    \/ \E r \in DOMAIN requires : \E c \in runningCallbacks : callbackReturn(r, c)
    \/ \E r \in DOMAIN requires : requireReject(r)

Spec == InitSched /\ [][Next]_vars

\* every fetch settles and every continuation that can run does run
FairSpec == Spec /\ WF_vars(Next)

\* the same with callers that set the bootstrap option
NextWithOptions ==
    \/ requireCallWithOptions
    \/ \E r \in DOMAIN requires : requireNothing(r)
    \/ \E r \in DOMAIN requires : requireSchedule(r)
    \/ \E t \in DOMAIN tasks : taskFetch(t)
    \/ \E t \in DOMAIN tasks : taskAlreadyInstalled(t)
    \/ \E t \in DOMAIN tasks : taskDependencyRejected(t)
    \/ \E t \in DOMAIN tasks : taskAttach(t)
    \/ \E t \in DOMAIN tasks : taskFetchFail(t)
    \/ \E t \in DOMAIN tasks : taskLive(t)
    \/ \E t \in DOMAIN tasks : taskBootstrapRejected(t)
    \/ \E r \in DOMAIN requires : requireResolve(r)
    \/ \E r \in DOMAIN requires : \E c \in runningCallbacks : callbackReturn(r, c)
    \/ \E r \in DOMAIN requires : requireReject(r)

SpecWithOptions == InitSched /\ [][NextWithOptions]_vars

(***************************************************************************)
(* The options of one package, from the entry of a require call to the     *)
(* install task: appendMethod, appendTarget and bootstrap.  A field an     *)
(* options object does not define is Undefined; booleans and null are      *)
(* written as strings.                                                     *)
(***************************************************************************)
OptionFields == {"appendMethod", "appendTarget", "repository", "bootstrap"}

\* the fields the install task uses
InstallFields == {"appendMethod", "appendTarget", "bootstrap"}

\* WPMv2.getLocalRepositoryURL()
LocalRepositoryURL == "local?raw"

OptionValues ==
    [appendMethod |-> {"append", "prepend", "Prepend"},
     appendTarget |-> {"null", "#target"},
     repository   |-> {"/repoA", "/repoB"},
     bootstrap    |-> {"true", "false"}]

\* the options objects a caller can write
OptionObjects ==
    {o \in [OptionFields -> {Undefined} \cup UNION Range(OptionValues)] :
        \A f \in OptionFields : o[f] \in {Undefined} \cup OptionValues[f]}

NoOptions == [f \in OptionFields |-> Undefined]

\* what an install task that has not run yet did: nothing
NotInstalled ==
    [f \in OptionFields \cup {"alreadyInstalled", "live", "packageInstalled"}
        |-> Undefined]

\* how a package gets into the closure of a call
EntryKinds == {"string", "object", "WPMPackage", "repositoryString",
               "repositoryObject", "dependency"}

\* the entries that can carry option fields of their own
EntriesWithOptions == {"object", "WPMPackage", "repositoryObject"}

\* Object.assign({}, target, source): the properties source has win
ObjectAssign(target, source) ==
    [f \in OptionFields |->
        IF source[f] # Undefined THEN source[f] ELSE target[f]]

\* const defaultOptions of WPMv2.require
defaultOptions ==
    [appendMethod |-> "append", appendTarget |-> "null",
     repository |-> LocalRepositoryURL, bootstrap |-> "true"]

\* the option fields the constructor of WPMPackage sets, but for the
\* repository it is given
newWPMPackage ==
    [appendMethod |-> "append", appendTarget |-> "null",
     repository |-> Undefined, bootstrap |-> "true"]

\* new WPMPackage(name, repository)
WPMPackage(repository) == [newWPMPackage EXCEPT !.repository = repository]

\* the repository a whole-repository string entry names, and the one a
\* dependency is declared with
RepositoryUrl == "/repoA"

\* WPMPackage.updateFromOptions: copies the fields the options have
updateFromOptions(this, opts) ==
    [f \in OptionFields |->
        IF opts[f] # Undefined THEN opts[f] ELSE this[f]]

\* WPMPackage.getPackageOptions: every field, always
getPackageOptions(this) == [f \in OptionFields |-> this[f]]

\* String.prototype.toLowerCase on the appendMethod values
toLowerCase(str) == IF str = "Prepend" THEN "prepend" ELSE str

\* mutant of dependency: the dependency gets the options of the
\* package that declares it, too
dependencyOfParent(pkg, override) ==
    updateFromOptions(updateFromOptions(WPMPackage(RepositoryUrl), pkg),
                      override)

\* the dependency findAllDependencies makes of an entry of the
\* dependencyMap of pkg: new WPMPackage(dependencyEntry[0],
\* dependencyEntry[1]), then dependency.updateFromOptions(overrideOptions)
dependency(pkg, override) ==
    updateFromOptions(WPMPackage(RepositoryUrl), override)

\* mutant of entryToPackage: every entry gets the overrideOptions, the
\* packages of a whole repository too
entryToPackageOverrideAll(kind, entry, override) ==
    updateFromOptions(updateFromOptions(newWPMPackage, entry), override)

\* the entry becomes a WPMPackage
entryToPackage(kind, entry, override) ==
    CASE kind = "WPMPackage" ->
            updateFromOptions(updateFromOptions(newWPMPackage, entry), override)
      [] kind \in {"string", "object"} ->
            LET opts == ObjectAssign(ObjectAssign(defaultOptions, entry),
                                     override)
            IN updateFromOptions(WPMPackage(opts.repository), opts)
      [] kind = "repositoryString" -> WPMPackage(RepositoryUrl)
      [] kind = "repositoryObject" ->
            updateFromOptions(WPMPackage(entry.repository), entry)
      [] kind = "dependency" ->
            dependency(updateFromOptions(newWPMPackage, parentOptions),
                       override)

\* mutant of installOptions: the package's options are assigned last
installOptionsPackageLast(pkg, override) ==
    ObjectAssign(ObjectAssign(defaultOptions, override), getPackageOptions(pkg))

\* the options of the install task
installOptions(pkg, override) ==
    ObjectAssign(ObjectAssign(defaultOptions, getPackageOptions(pkg)), override)

TreeIdle ==
    /\ packages = <<>> /\ alreadySorting = <<>> /\ convertedPackages = <<>>
    /\ sortedPackages = <<>> /\ lastLength = 0
    /\ calls = <<>> /\ fetchFailed = {}
    /\ treePc = "off"

WorldIdle ==
    /\ dependencyMap = [n \in Names |-> {}]
    /\ optionalDependencyMap = [n \in Names |-> {}]

\* WPMv2.require(packages, overrideOptions) with the package in its closure
InitOptions ==
    /\ entryKind \in EntryKinds
    /\ entryOptions \in OptionObjects
    /\ entryKind \notin EntriesWithOptions => entryOptions = NoOptions
    /\ entryOptions.repository \in {Undefined, "/repoA"}
    /\ entryKind \in {"object", "repositoryObject"} =>
          entryOptions.repository # Undefined
    /\ overrideOptions \in OptionObjects
    /\ overrideOptions.repository \in {Undefined, "/repoB"}
    /\ localPackageDom \in BOOLEAN
    /\ parentOptions \in IF entryKind = "dependency"
                          THEN {o \in OptionObjects :
                                    o.repository \in {Undefined, "/repoB"}}
                          ELSE {NoOptions}
    /\ fetchRepository = Undefined
    /\ wpmPackage = Undefined /\ options = Undefined
    /\ installedWith = NotInstalled
    /\ optionsPc = "entry"
    /\ WorldIdle /\ TreeIdle /\ SchedIdle /\ CacheIdle /\ SyncIdle
    /\ RepoIdle /\ BootIdle

notOptionVars == <<worldVars, treeVars, schedVars, cacheVars, syncVars,
                   repoVars, bootVars>>

\* the entry is converted and handed to addPackage
optionsEntry ==
    /\ optionsPc = "entry"
    /\ wpmPackage' = entryToPackage(entryKind, entryOptions, overrideOptions)
    /\ optionsPc' = "added"
    /\ UNCHANGED <<optionsInput, fetchRepository, options,
                   installedWith, notOptionVars>>

\* let repoOverride = wpmPackage.repository;
\* if (localPackageDom != null) repoOverride = WPMv2.getLocalRepositoryURL()
repoOverride(pkg, localDom) ==
    IF localDom THEN LocalRepositoryURL ELSE pkg.repository

\* addPackage replaces the package by the one of the descriptor, which
\* getLatestPackageFromPackage fetches from repoOverride, or from the
\* repository of the package if that is null
getLatestPackageFromPackage ==
    /\ optionsPc = "added"
    /\ fetchRepository' =
          IF repoOverride(wpmPackage, localPackageDom) # Undefined
          THEN repoOverride(wpmPackage, localPackageDom)
          ELSE wpmPackage.repository
    /\ wpmPackage' = updateFromOptions(WPMPackage(fetchRepository'),
                                       getPackageOptions(wpmPackage))
    /\ optionsPc' = "resolved"
    /\ UNCHANGED <<optionsInput, options, installedWith, notOptionVars>>

\* the install task merges its options
optionsMerge ==
    /\ optionsPc = "resolved"
    /\ options' = installOptions(wpmPackage, overrideOptions)
    /\ optionsPc' = "merged"
    /\ UNCHANGED <<optionsInput, fetchRepository, wpmPackage,
                   installedWith, notOptionVars>>

\* the package is not in the document: it is attached
optionsAttach ==
    /\ optionsPc = "merged"
    /\ installedWith' = [installedWith EXCEPT
            !.appendTarget = options.appendTarget,
            !.appendMethod = toLowerCase(options.appendMethod),
            !.alreadyInstalled = "false"]
    /\ optionsPc' = "attached"
    /\ UNCHANGED <<optionsInput, fetchRepository, wpmPackage,
                   options, notOptionVars>>

\* the package is in the document already: nothing is attached
optionsAlreadyInstalled ==
    /\ optionsPc = "merged"
    /\ installedWith' = [installedWith EXCEPT !.alreadyInstalled = "true"]
    /\ optionsPc' = "attached"
    /\ UNCHANGED <<optionsInput, fetchRepository, wpmPackage,
                   options, notOptionVars>>

\* if (pkg.bootstrap)
truthy(value) == value = "true"

\* the package is not live: if pkg.bootstrap it is bootstrapped, which
\* dispatches wpm.packageInstalled for a package that was attached, and it
\* gets the live marker; otherwise it is left as it is
optionsBootstrap ==
    /\ optionsPc = "attached"
    /\ installedWith' =
          IF truthy(wpmPackage.bootstrap)
          THEN [installedWith EXCEPT
                  !.bootstrap = "true",
                  !.packageInstalled =
                      IF installedWith.alreadyInstalled = "false"
                      THEN "true" ELSE "false",
                  !.live = "true"]
          ELSE [installedWith EXCEPT
                  !.bootstrap = "false", !.packageInstalled = "false",
                  !.live = "false"]
    /\ optionsPc' = "installed"
    /\ UNCHANGED <<optionsInput, fetchRepository, wpmPackage,
                   options, notOptionVars>>

\* the package was in the document and is live already: nothing is done
optionsAlreadyLive ==
    /\ optionsPc = "attached"
    /\ installedWith.alreadyInstalled = "true"
    /\ installedWith' = [installedWith EXCEPT
            !.bootstrap = "false", !.packageInstalled = "false",
            !.live = "already"]
    /\ optionsPc' = "installed"
    /\ UNCHANGED <<optionsInput, fetchRepository, wpmPackage,
                   options, notOptionVars>>

NextOptions ==
    \/ optionsEntry
    \/ getLatestPackageFromPackage
    \/ optionsMerge
    \/ optionsAttach
    \/ optionsAlreadyInstalled
    \/ optionsBootstrap
    \/ optionsAlreadyLive

SpecOptions == InitOptions /\ [][NextOptions]_vars

(***************************************************************************)
(* WPMv2.fetchDom and WPMv2.domCache.  Every call of fetchDom is a record  *)
(* that moves from one await to the next; the clock advances between any   *)
(* two of these segments.                                                  *)
(***************************************************************************)
Urls == {"u1", "u2"}
MaxFetchDomCalls == 3
MaxFetchCalls == 4
TimeStep == 2500
MaxTime == 5000

\* WPMv2.cacheTimeout
cacheTimeout == 5000

\* mutant of cacheFresh: an entry never gets old
cacheFreshForever(timestamp, t) == TRUE

\* mutant of cacheFresh: the comparison the other way round
cacheFreshReversed(timestamp, t) == t - timestamp > cacheTimeout

\* Date.now() - cachedDom.timestamp < WPMv2.cacheTimeout
cacheFresh(timestamp, t) == t - timestamp < cacheTimeout

\* a call of fetchDom returned the document of this fetch
completed(f) ==
    \E k \in DOMAIN fetchDomCalls :
        fetchDomCalls[k].pc = "returned" /\ fetchDomCalls[k].dom = f

InitCache ==
    /\ clock = 0
    /\ domCache = [u \in Urls |-> 0]
    /\ fetches = <<>>
    /\ fetchDomCalls = <<>>
    /\ assetsCache = [u \in Urls |-> [assets |-> 0, timestamp |-> 0]]
    /\ fetchAssetsCalls = <<>>
    /\ aliasCalls = <<>>
    /\ WorldIdle /\ TreeIdle /\ SchedIdle /\ OptionsIdle /\ SyncIdle
    /\ RepoIdle /\ BootIdle

notCacheVars == <<worldVars, treeVars, schedVars, optionVars, syncVars,
                  repoVars, bootVars>>

\* mutant of fetchDomStart: the cache is not looked at
fetchDomStartUncached(url, caller) ==
    /\ fetches' = Append(fetches,
            [url |-> url, st |-> "pending", timestamp |-> 0])
    /\ domCache' = [domCache EXCEPT ![url] = Len(fetches) + 1]
    /\ fetchDomCalls' = Append(fetchDomCalls,
            [url |-> url, pc |-> "awaitFetcher", promise |-> Len(fetches) + 1,
             caller |-> caller, issuedAt |-> clock, entry |-> 0,
             failedBefore |-> FALSE, checkedAt |-> -1, dom |-> 0,
             requests |-> 1])
    /\ UNCHANGED <<clock, assetsCache, fetchAssetsCalls>>

\* fetchDom(url) runs with a location to its first await.  Next to what the
\* code keeps, the record notes when the call was issued, which entry
\* of a completed fetchDom the cache held at that moment (0: none), and
\* whether the cache held a fetch that had failed.
fetchDomStart(url, caller) ==
    /\ LET c == Len(fetchDomCalls) + 1
           cachedDom == domCache[url]
           call == [url |-> url, pc |-> "awaitCached", promise |-> cachedDom,
                    caller |-> caller,
                    issuedAt |-> clock,
                    entry |-> IF cachedDom # 0 /\ completed(cachedDom)
                              THEN cachedDom ELSE 0,
                    failedBefore |-> cachedDom # 0 /\
                                     fetches[cachedDom].st = "rejected",
                    checkedAt |-> -1, dom |-> 0, requests |-> 0]
       IN IF cachedDom # 0
          THEN /\ fetchDomCalls' = Append(fetchDomCalls, call)
               /\ UNCHANGED <<fetches, domCache>>
          ELSE /\ fetches' = Append(fetches,
                       [url |-> url, st |-> "pending", timestamp |-> 0])
               /\ domCache' = [domCache EXCEPT ![url] = Len(fetches) + 1]
               /\ fetchDomCalls' = Append(fetchDomCalls,
                       [call EXCEPT !.pc = "awaitFetcher",
                                    !.promise = Len(fetches) + 1,
                                    !.requests = 1])
    /\ UNCHANGED <<clock, assetsCache, fetchAssetsCalls>>

\* fetchDom(url) is called with a location (caller 0: not from the loop
\* over the candidates of an alias)
fetchDomCall(url) ==
    /\ Len(fetchDomCalls) < MaxFetchDomCalls
    /\ Len(fetchDomCalls) + Len(fetchAssetsCalls) < MaxFetchCalls
    /\ fetchDomStart(url, 0)
    /\ UNCHANGED <<aliasCalls, notCacheVars>>

\* the await of the cached promise resumes with its value: the cached
\* document is returned if it is fresh now, a new fetch starts otherwise
fetchDomCached(c) ==
    /\ fetchDomCalls[c].pc = "awaitCached"
    /\ fetches[fetchDomCalls[c].promise].st = "fulfilled"
    /\ IF cacheFresh(fetches[fetchDomCalls[c].promise].timestamp, clock)
       THEN /\ fetchDomCalls' = [fetchDomCalls EXCEPT ![c] =
                    [@ EXCEPT !.pc = "returned", !.checkedAt = clock,
                              !.dom = fetchDomCalls[c].promise]]
            /\ UNCHANGED <<fetches, domCache>>
       ELSE /\ fetches' = Append(fetches,
                    [url |-> fetchDomCalls[c].url, st |-> "pending",
                     timestamp |-> 0])
            /\ domCache' = [domCache EXCEPT
                    ![fetchDomCalls[c].url] = Len(fetches) + 1]
            /\ fetchDomCalls' = [fetchDomCalls EXCEPT ![c] =
                    [@ EXCEPT !.pc = "awaitFetcher", !.checkedAt = clock,
                              !.promise = Len(fetches) + 1,
                              !.requests = @ + 1]]
    /\ UNCHANGED <<clock, assetsCache, fetchAssetsCalls, aliasCalls,
                   notCacheVars>>

\* the await of the cached promise throws: fetchDom rejects
fetchDomCachedRejected(c) ==
    /\ fetchDomCalls[c].pc = "awaitCached"
    /\ fetches[fetchDomCalls[c].promise].st = "rejected"
    /\ fetchDomCalls' = [fetchDomCalls EXCEPT ![c] = [@ EXCEPT !.pc = "threw"]]
    /\ UNCHANGED <<clock, fetches, domCache, assetsCache, fetchAssetsCalls,
                   aliasCalls, notCacheVars>>

\* return (await fetcherPromise).dom
fetchDomFetched(c) ==
    /\ fetchDomCalls[c].pc = "awaitFetcher"
    /\ fetches[fetchDomCalls[c].promise].st = "fulfilled"
    /\ fetchDomCalls' = [fetchDomCalls EXCEPT ![c] =
            [@ EXCEPT !.pc = "returned", !.dom = fetchDomCalls[c].promise]]
    /\ UNCHANGED <<clock, fetches, domCache, assetsCache, fetchAssetsCalls,
                   aliasCalls, notCacheVars>>

\* the await of the call's own fetcherPromise throws
fetchDomFetchRejected(c) ==
    /\ fetchDomCalls[c].pc = "awaitFetcher"
    /\ fetches[fetchDomCalls[c].promise].st = "rejected"
    /\ fetchDomCalls' = [fetchDomCalls EXCEPT ![c] = [@ EXCEPT !.pc = "threw"]]
    /\ UNCHANGED <<clock, fetches, domCache, assetsCache, fetchAssetsCalls,
                   aliasCalls, notCacheVars>>

\* the response arrived and is parsed: {dom, timestamp: Date.now()}
fetchDOMPromiseFulfilled(f) ==
    /\ fetches[f].st = "pending"
    /\ fetches' = [fetches EXCEPT ![f] =
            [@ EXCEPT !.st = "fulfilled", !.timestamp = clock]]
    /\ UNCHANGED <<clock, domCache, fetchDomCalls, assetsCache,
                   fetchAssetsCalls, aliasCalls, notCacheVars>>

\* fetch(url) rejects
fetchDOMPromiseRejected(f) ==
    /\ fetches[f].st = "pending"
    /\ Cardinality({g \in DOMAIN fetches : fetches[g].st = "rejected"})
          < MaxFailures
    /\ fetches' = [fetches EXCEPT ![f] = [@ EXCEPT !.st = "rejected"]]
    /\ UNCHANGED <<clock, domCache, fetchDomCalls, assetsCache,
                   fetchAssetsCalls, aliasCalls, notCacheVars>>

\* time passes
tick ==
    /\ clock + TimeStep <= MaxTime
    /\ clock' = clock + TimeStep
    /\ UNCHANGED <<domCache, fetches, fetchDomCalls, assetsCache,
                   fetchAssetsCalls, aliasCalls, notCacheVars>>

\* fetchAssets(url) is called: a fresh entry of the cache is returned at
\* once, otherwise the manifest is requested.  The manifest a request
\* returned is named by the number of the call that requested it.
fetchAssetsCall(url) ==
    /\ Len(fetchDomCalls) + Len(fetchAssetsCalls) < MaxFetchCalls
    /\ LET cached == assetsCache[url]
           call == [url |-> url, issuedAt |-> clock,
                    entry |-> cached.assets, entryTimestamp |-> cached.timestamp]
       IN fetchAssetsCalls' = Append(fetchAssetsCalls,
            IF cached.assets # 0 /\ cacheFresh(cached.timestamp, clock)
            THEN call @@ [pc |-> "returned", assets |-> cached.assets,
                          requests |-> 0]
            ELSE call @@ [pc |-> "awaitFetch", assets |-> 0, requests |-> 1])
    /\ UNCHANGED <<clock, domCache, fetches, fetchDomCalls, assetsCache,
                   aliasCalls, notCacheVars>>

\* the manifest arrived: it is put into the cache and returned
fetchAssetsFetched(c) ==
    /\ fetchAssetsCalls[c].pc = "awaitFetch"
    /\ assetsCache' = [assetsCache EXCEPT ![fetchAssetsCalls[c].url] =
            [assets |-> c, timestamp |-> clock]]
    /\ fetchAssetsCalls' = [fetchAssetsCalls EXCEPT ![c] =
            [@ EXCEPT !.pc = "returned", !.assets = c]]
    /\ UNCHANGED <<clock, domCache, fetches, fetchDomCalls, aliasCalls,
                   notCacheVars>>

\* fetch(url) or response.json() rejects: fetchAssets rejects
fetchAssetsRejected(c) ==
    /\ fetchAssetsCalls[c].pc = "awaitFetch"
    /\ Cardinality({k \in DOMAIN fetchAssetsCalls :
                        fetchAssetsCalls[k].pc = "threw"}) < MaxFailures
    /\ fetchAssetsCalls' = [fetchAssetsCalls EXCEPT ![c] =
            [@ EXCEPT !.pc = "threw"]]
    /\ UNCHANGED <<clock, domCache, fetches, fetchDomCalls, assetsCache,
                   aliasCalls, notCacheVars>>

NextCache ==
    \/ \E url \in Urls : fetchDomCall(url)
    \/ \E c \in DOMAIN fetchDomCalls : fetchDomCached(c)
    \/ \E c \in DOMAIN fetchDomCalls : fetchDomCachedRejected(c)
    \/ \E c \in DOMAIN fetchDomCalls : fetchDomFetched(c)
    \/ \E c \in DOMAIN fetchDomCalls : fetchDomFetchRejected(c)
    \/ \E f \in DOMAIN fetches : fetchDOMPromiseFulfilled(f)
    \/ \E f \in DOMAIN fetches : fetchDOMPromiseRejected(f)
    \/ \E url \in Urls : fetchAssetsCall(url)
    \/ \E c \in DOMAIN fetchAssetsCalls : fetchAssetsFetched(c)
    \/ \E c \in DOMAIN fetchAssetsCalls : fetchAssetsRejected(c)
    \/ tick

SpecCache == InitCache /\ [][NextCache]_vars

(***************************************************************************)
(* fetchDom with a repository alias.                                       *)
(***************************************************************************)
MaxAliasCalls == 2
MaxDirectCalls == 1
Aliases == {"repo", "mirror"}

\* WPMv2.lookupRepoAlias: a location is returned as it is; "repo" is not
\* registered and expands to its two forms ("u1" for "/repo/?raw", "u2" for
\* "/repo/index.html"), "mirror" is registered with the list of one location
lookupRepoAlias(alias) ==
    CASE alias \in Urls -> alias
      [] alias = "mirror" -> <<"u2">>
      [] OTHER -> <<"u1", "u2">>

\* fetchDom(alias): the alias is looked up and fetchDom called with the first
\* candidate.  The record notes the documents that calls with this alias
\* had returned by then.
aliasCall(alias) ==
    /\ Len(aliasCalls) < MaxAliasCalls
    /\ fetchDomStart(lookupRepoAlias(alias)[1], Len(aliasCalls) + 1)
    /\ aliasCalls' = Append(aliasCalls,
            [alias |-> alias, issuedAt |-> clock, pc |-> "awaitFetchDom",
             index |-> 1, inner |-> Len(fetchDomCalls) + 1, dom |-> 0,
             tried |-> 1,
             previous |-> {aliasCalls[k].dom : k \in
                              {j \in DOMAIN aliasCalls :
                                    /\ aliasCalls[j].alias = alias
                                    /\ aliasCalls[j].pc = "returned"}}])
    /\ UNCHANGED notCacheVars

\* let fetchedDom = await this.fetchDom(u);
\* if (fetchedDom != null) return fetchedDom
aliasReturned(a) ==
    /\ aliasCalls[a].pc = "awaitFetchDom"
    /\ fetchDomCalls[aliasCalls[a].inner].pc = "returned"
    /\ aliasCalls' = [aliasCalls EXCEPT ![a] =
            [@ EXCEPT !.pc = "returned",
                      !.dom = fetchDomCalls[aliasCalls[a].inner].dom]]
    /\ UNCHANGED <<clock, domCache, fetches, fetchDomCalls, assetsCache,
                   fetchAssetsCalls, notCacheVars>>

\* catch(e): the loop goes on with the next candidate; after the last one
\* fetchDom returns null
aliasCaught(a) ==
    /\ aliasCalls[a].pc = "awaitFetchDom"
    /\ fetchDomCalls[aliasCalls[a].inner].pc = "threw"
    /\ LET url == lookupRepoAlias(aliasCalls[a].alias)
           i == aliasCalls[a].index
       IN IF i < Len(url)
          THEN /\ fetchDomStart(url[i + 1], a)
               /\ aliasCalls' = [aliasCalls EXCEPT ![a] =
                       [@ EXCEPT !.index = i + 1,
                                 !.inner = Len(fetchDomCalls) + 1,
                                 !.tried = @ + 1]]
          ELSE /\ aliasCalls' = [aliasCalls EXCEPT ![a] =
                       [@ EXCEPT !.pc = "null"]]
               /\ UNCHANGED <<clock, domCache, fetches, fetchDomCalls,
                              assetsCache, fetchAssetsCalls>>
    /\ UNCHANGED notCacheVars

\* the calls of fetchDom made with a location, next to those with an alias
directCalls == Cardinality({c \in DOMAIN fetchDomCalls :
                                fetchDomCalls[c].caller = 0})

NextAlias ==
    \/ \E alias \in Aliases : aliasCall(alias)
    \/ \E a \in DOMAIN aliasCalls : aliasReturned(a)
    \/ \E a \in DOMAIN aliasCalls : aliasCaught(a)
    \/ \E url \in Urls : directCalls < MaxDirectCalls /\ fetchDomCall(url)
    \/ \E c \in DOMAIN fetchDomCalls : fetchDomCached(c)
    \/ \E c \in DOMAIN fetchDomCalls : fetchDomCachedRejected(c)
    \/ \E c \in DOMAIN fetchDomCalls : fetchDomFetched(c)
    \/ \E c \in DOMAIN fetchDomCalls : fetchDomFetchRejected(c)
    \/ \E f \in DOMAIN fetches : fetchDOMPromiseFulfilled(f)
    \/ \E f \in DOMAIN fetches : fetchDOMPromiseRejected(f)
    \/ tick

SpecAlias == InitCache /\ [][NextAlias]_vars

(***************************************************************************)
(* The asset sync of an install task that attached its package: the two    *)
(* manifests, one promise per asset to transfer, one POST.  A manifest     *)
(* maps a file name to its hash, 0 where it has no entry.                  *)
(***************************************************************************)
Assets == {"x.png", "y.png"}
Hashes == {1, 2}
Manifests == [Assets -> Hashes \cup {0}]
MaxSharing == 2

\* mutant of skipAsset: an asset both manifests know is skipped
skipAssetIfPresent(asset, localManifest, repoManifest) ==
    localManifest[asset] # 0 /\ repoManifest[asset] # 0

\* localAsset != null && repoAsset != null
\*     && localAsset.fileHash === repoAsset.fileHash
skipAsset(asset, localManifest, repoManifest) ==
    /\ localManifest[asset] # 0 /\ repoManifest[asset] # 0
    /\ localManifest[asset] = repoManifest[asset]

\* the assets the forEach creates a promise for
assetsToFetch(declared, localManifest, repoManifest) ==
    {declared[i] : i \in {j \in DOMAIN declared :
                            ~skipAsset(declared[j], localManifest, repoManifest)}}

\* the package was attached; one or more require calls await its task
InitSync ==
    /\ packageAssets \in {SeqOf(S) : S \in SUBSET Assets}
                         \cup {<<"y.png", "x.png">>}
    /\ repoAssets \in Manifests
    /\ localAssets \in Manifests
    /\ assetPromises = <<>>
    /\ formData = <<>>
    /\ posts = 0
    /\ syncPc = "attached"
    /\ \E n \in 1..MaxSharing : syncRequires = [r \in 1..n |-> "awaiting"]
    /\ WorldIdle /\ TreeIdle /\ SchedIdle /\ OptionsIdle /\ CacheIdle
    /\ RepoIdle /\ BootIdle

notSyncVars == <<worldVars, treeVars, schedVars, optionVars, cacheVars,
                 repoVars, bootVars>>
syncWorld == <<packageAssets, repoAssets, localAssets>>

\* if (wpmPackage.assets.length > 0): the manifest of the repository is
\* requested
syncStart ==
    /\ syncPc = "attached"
    /\ syncPc' = IF Len(packageAssets) > 0 THEN "awaitRepoAssets" ELSE "synced"
    /\ UNCHANGED <<syncWorld, assetPromises, formData, posts, syncRequires,
                   notSyncVars>>

\* repoAssets arrived: the manifest of the document is requested
syncRepoAssets ==
    /\ syncPc = "awaitRepoAssets"
    /\ syncPc' = "awaitLocalAssets"
    /\ UNCHANGED <<syncWorld, assetPromises, formData, posts, syncRequires,
                   notSyncVars>>

\* localAssets arrived: the forEach creates the promises, each of which
\* calls fetchAsset at once
syncLocalAssets ==
    /\ syncPc = "awaitLocalAssets"
    /\ assetPromises' = [a \in assetsToFetch(packageAssets, localAssets,
                                             repoAssets) |-> "pending"]
    /\ syncPc' = IF assetPromises' # <<>> THEN "awaitAssetPromises"
                 ELSE "synced"
    /\ UNCHANGED <<syncWorld, formData, posts, syncRequires, notSyncVars>>

\* fetchAssets rejects: the install task throws
syncAssetsRejected ==
    /\ syncPc \in {"awaitRepoAssets", "awaitLocalAssets"}
    /\ syncPc' = "rejected"
    /\ UNCHANGED <<syncWorld, assetPromises, formData, posts, syncRequires,
                   notSyncVars>>

\* fetchAsset returned the blob: formData.append, resolve()
fetchAssetFetched(asset) ==
    /\ assetPromises[asset] = "pending"
    /\ assetPromises' = [assetPromises EXCEPT ![asset] = "resolved"]
    /\ formData' = Append(formData, asset)
    /\ UNCHANGED <<syncWorld, posts, syncPc, syncRequires, notSyncVars>>

\* fetchAsset rejects: the async executor throws at its await, after the
\* executor returned; neither resolve nor reject is ever called
fetchAssetRejected(asset) ==
    /\ assetPromises[asset] = "pending"
    /\ assetPromises' = [assetPromises EXCEPT ![asset] = "neverSettles"]
    /\ UNCHANGED <<syncWorld, formData, posts, syncPc, syncRequires,
                   notSyncVars>>

\* await Promise.all(assetPromises) resumes: the POST is issued
syncPost ==
    /\ syncPc = "awaitAssetPromises"
    /\ \A a \in DOMAIN assetPromises : assetPromises[a] = "resolved"
    /\ posts' = posts + 1
    /\ syncPc' = "awaitPost"
    /\ UNCHANGED <<syncWorld, assetPromises, formData, syncRequires,
                   notSyncVars>>

\* the POST was answered
syncPosted ==
    /\ syncPc = "awaitPost"
    /\ syncPc' = "synced"
    /\ UNCHANGED <<syncWorld, assetPromises, formData, posts, syncRequires,
                   notSyncVars>>

\* the POST rejects: the install task throws
syncPostRejected ==
    /\ syncPc = "awaitPost"
    /\ syncPc' = "rejected"
    /\ UNCHANGED <<syncWorld, assetPromises, formData, posts, syncRequires,
                   notSyncVars>>

\* the rest of the install task: the package is made live, the task is done
syncLive ==
    /\ syncPc = "synced"
    /\ syncPc' = "done"
    /\ UNCHANGED <<syncWorld, assetPromises, formData, posts, syncRequires,
                   notSyncVars>>

\* await Promise.all(promises) of a require call resumes or throws
syncRequireSettles(r) ==
    /\ syncRequires[r] = "awaiting"
    /\ syncPc \in {"done", "rejected"}
    /\ syncRequires' = [syncRequires EXCEPT ![r] = syncPc]
    /\ UNCHANGED <<syncWorld, assetPromises, formData, posts, syncPc,
                   notSyncVars>>

NextSync ==
    \/ syncStart
    \/ syncRepoAssets
    \/ syncLocalAssets
    \/ syncAssetsRejected
    \/ \E a \in DOMAIN assetPromises : fetchAssetFetched(a)
    \/ \E a \in DOMAIN assetPromises : fetchAssetRejected(a)
    \/ syncPost
    \/ syncPosted
    \/ syncPostRejected
    \/ syncLive
    \/ \E r \in DOMAIN syncRequires : syncRequireSettles(r)

SpecSync == InitSync /\ [][NextSync]_vars

\* every request is answered or fails and every continuation that can run
\* does run
FairSpecSync == SpecSync /\ WF_vars(NextSync)

(***************************************************************************)
(* addRepo: a whole-repository entry.  The repository document lists       *)
(* package elements; getWPMPackageFromDOM returns undefined for an element *)
(* whose descriptor is missing or does not parse.  The packages have no    *)
(* dependencies here.                                                      *)
(***************************************************************************)
MaxRepoPackages == 3
Descriptors == {"ok", "missing", "malformed"}

\* the repository documents: package elements with distinct names
RepositoryDocuments ==
    {d \in UNION {[1..n -> [name : Names, descriptor : Descriptors]] :
                     n \in 0..MaxRepoPackages} :
        \A i, j \in DOMAIN d : d[i].name = d[j].name => i = j}

\* WPMv2.getWPMPackageFromDOM: the package, or undefined after the diagnostic
getWPMPackageFromDOM(packageDOM) ==
    IF packageDOM.descriptor = "ok" THEN packageDOM.name ELSE Undefined

\* the for loop of addRepo from element i up to its next await: an undefined
\* package makes pkg.updateFromOptions or addPackage throw a TypeError, which
\* the catch around the loop takes
addRepoFrom(i) ==
    IF i > Len(repoPackages)
    THEN /\ repoPc' = "done" /\ repoIndex' = i
         /\ UNCHANGED alreadySorting
    ELSE IF getWPMPackageFromDOM(repoPackages[i]) = Undefined
    THEN /\ repoPc' = "caught" /\ repoIndex' = i
         /\ UNCHANGED alreadySorting
    ELSE /\ repoPc' = "awaitAddPackage" /\ repoIndex' = i
         /\ alreadySorting' =
               Append(alreadySorting, getWPMPackageFromDOM(repoPackages[i]))

InitRepo ==
    /\ repoPackages \in RepositoryDocuments
    /\ repoIndex = 0
    /\ repoPc = "awaitRepository"
    /\ packages = <<>> /\ alreadySorting = <<>> /\ convertedPackages = <<>>
    /\ sortedPackages = <<>> /\ lastLength = 0
    /\ calls = <<>> /\ fetchFailed = {}
    /\ treePc = "off"
    /\ WorldIdle /\ SchedIdle /\ OptionsIdle /\ CacheIdle /\ SyncIdle
    /\ BootIdle

notRepoVars == <<worldVars, schedVars, optionVars, cacheVars, syncVars,
                 bootVars, packages, sortedPackages, lastLength, calls, treePc>>

\* getPackagesFromRepository returned the packages of the document
repoFetched ==
    /\ repoPc = "awaitRepository"
    /\ addRepoFrom(1)
    /\ UNCHANGED <<repoPackages, convertedPackages, fetchFailed, notRepoVars>>

\* getPackagesFromRepository threw: the catch of addRepo takes it
repoFetchFailed ==
    /\ repoPc = "awaitRepository"
    /\ repoPc' = "caught"
    /\ UNCHANGED <<repoPackages, repoIndex, alreadySorting, convertedPackages,
                   fetchFailed, notRepoVars>>

\* await addPackage(pkg) resumes, the package was resolved and pushed
repoPackageAdded ==
    /\ repoPc = "awaitAddPackage"
    /\ convertedPackages' =
          Append(convertedPackages, repoPackages[repoIndex].name)
    /\ addRepoFrom(repoIndex + 1)
    /\ UNCHANGED <<repoPackages, fetchFailed, notRepoVars>>

\* await addPackage(pkg) resumes, addPackage caught the failed resolution
repoPackageFailed ==
    /\ repoPc = "awaitAddPackage"
    /\ Cardinality(fetchFailed) < MaxFailures
    /\ fetchFailed' = fetchFailed \cup {repoPackages[repoIndex].name}
    /\ addRepoFrom(repoIndex + 1)
    /\ UNCHANGED <<repoPackages, convertedPackages, notRepoVars>>

NextRepo ==
    \/ repoFetched
    \/ repoFetchFailed
    \/ repoPackageAdded
    \/ repoPackageFailed

SpecRepo == InitRepo /\ [][NextRepo]_vars

(***************************************************************************)
(* WPMBoot.wpmv2_bootloader: the require steps of the boot configuration.  *)
(* A step is "incorrect" when it has no dependency list; the require call  *)
(* of a step is a call of WPMv2.require that resolves, rejects or does     *)
(* neither.                                                                *)
(***************************************************************************)
MaxSteps == 3
MaxLoadedCallbacks == 2
RequireSteps == {"dependencies", "dependenciesAndOptions", "incorrect"}

\* what the document can hold as boot configuration
BootConfigs ==
    {[kind |-> k, require |-> <<>>] :
        k \in {"missing", "unparseable", "noRequire", "notArray"}}
    \cup {[kind |-> "ok", require |-> steps] :
            steps \in UNION {[1..n -> RequireSteps] : n \in 0..MaxSteps}}

\* the steps from i on that have a dependency list
correctSteps(i) ==
    {j \in i..Len(bootConfig.require) : bootConfig.require[j] # "incorrect"}

\* the smallest element of a non-empty set of numbers
Min(S) == CHOOSE x \in S : \A y \in S : x <= y

\* mutant of stepsCalled: the loop calls require for every step left
\* without awaiting any
stepsCalledAtOnce(i) ==
    LET left == correctSteps(i) IN
    [k \in 1..Cardinality(left) |->
        CHOOSE j \in left : Cardinality({x \in left : x < j}) = k - 1]

\* the steps whose require is called when the loop runs from step i to its
\* next await: the first step with a dependency list, the steps before it
\* being skipped
stepsCalled(i) ==
    IF correctSteps(i) = {} THEN <<>> ELSE <<Min(correctSteps(i))>>

\* while (WPMBoot.loadedCallbacks.length > 0): the last callback is popped
\* and called, and its result awaited; after the loop the bootloader returns
fireLoaded ==
    IF loadedCallbacks = <<>>
    THEN bootPc' = "loaded" /\ UNCHANGED <<loadedCallbacks, loadedInvoked>>
    ELSE /\ bootPc' = "awaitCallback"
         /\ loadedCallbacks' = Pop(loadedCallbacks)
         /\ loadedInvoked' = Append(loadedInvoked, Top(loadedCallbacks))

\* the for loop from step i up to its next await, or to its end and on to
\* the loaded callbacks
bootLoopFrom(i, log) ==
    LET called == stepsCalled(i) IN
    /\ bootLog' = log \o [k \in DOMAIN called |->
                                [type |-> "require", step |-> called[k]]]
    /\ IF called = <<>>
       THEN bootIndex' = Len(bootConfig.require) + 1 /\ fireLoaded
       ELSE /\ bootPc' = "awaitRequire" /\ bootIndex' = called[Len(called)]
            /\ UNCHANGED <<loadedCallbacks, loadedInvoked>>

InitBoot ==
    /\ bootConfig \in BootConfigs
    /\ bootIndex = 0
    /\ bootPc = "waiting"
    /\ bootLog = <<>>
    /\ loadedCallbacks = <<>> /\ isLoaded = FALSE
    /\ onLoadedCalls = 0 /\ loadedInvoked = <<>>
    /\ WorldIdle /\ TreeIdle /\ SchedIdle /\ OptionsIdle /\ CacheIdle
    /\ SyncIdle /\ RepoIdle

notBootVars == <<worldVars, treeVars, schedVars, optionVars, cacheVars,
                 syncVars, repoVars>>

\* the loaded event fires: the configuration is read and the loop starts
wpmv2_bootloader ==
    /\ bootPc = "waiting"
    /\ IF bootConfig.kind # "ok"
       THEN /\ bootPc' = "returned"
            /\ UNCHANGED <<bootIndex, bootLog, loadedCallbacks, loadedInvoked>>
       ELSE bootLoopFrom(1, bootLog)
    /\ UNCHANGED <<bootConfig, isLoaded, onLoadedCalls, notBootVars>>

\* await WPMv2.require(...) resumes: the loop goes on
bootRequireResolved ==
    /\ bootPc = "awaitRequire"
    /\ bootLoopFrom(bootIndex + 1,
                    Append(bootLog, [type |-> "completed", step |-> bootIndex]))
    /\ UNCHANGED <<bootConfig, isLoaded, onLoadedCalls, notBootVars>>

\* await WPMv2.require(...) throws: the bootloader rejects
bootRequireRejected ==
    /\ bootPc = "awaitRequire"
    /\ bootLog' = Append(bootLog, [type |-> "rejected", step |-> bootIndex])
    /\ bootPc' = "threw"
    /\ UNCHANGED <<bootConfig, bootIndex, loadedVars, notBootVars>>

\* await callback() resumes, with its result or in the catch: the while
\* loop goes on
bootCallbackReturned ==
    /\ bootPc = "awaitCallback"
    /\ fireLoaded
    /\ UNCHANGED <<bootConfig, bootIndex, bootLog, isLoaded, onLoadedCalls,
                   notBootVars>>

\* WPMBoot.onLoaded(callback): the callback is called at once if isLoaded,
\* pushed on loadedCallbacks otherwise
onLoaded ==
    /\ bootPc # "off"
    /\ onLoadedCalls < MaxLoadedCallbacks
    /\ onLoadedCalls' = onLoadedCalls + 1
    /\ IF isLoaded
       THEN /\ loadedInvoked' = Append(loadedInvoked, onLoadedCalls + 1)
            /\ UNCHANGED loadedCallbacks
       ELSE /\ loadedCallbacks' = Append(loadedCallbacks, onLoadedCalls + 1)
            /\ UNCHANGED loadedInvoked
    /\ UNCHANGED <<bootConfig, bootIndex, bootPc, bootLog, isLoaded,
                   notBootVars>>

NextBoot ==
    \/ wpmv2_bootloader
    \/ bootRequireResolved
    \/ bootRequireRejected
    \/ bootCallbackReturned
    \/ onLoaded

SpecBoot == InitBoot /\ [][NextBoot]_vars

(***************************************************************************)
(* Claims about findCompletePackageTreeSorted (checked under SpecTree).    *)
(***************************************************************************)
\* the closure of the call: what the resolver added, placed or not
Closure == Range(sortedPackages) \cup Range(convertedPackages)

\* position of a placed package in the returned order
Position(n) == IndexOf(sortedPackages, n)

\* C2: in the returned order, whenever placed package X hard-depends on
\* placed package Y, Y stands strictly before X.
C2_HardDependencyFirst ==
    \A i, j \in DOMAIN sortedPackages :
        sortedPackages[j] \in dependencyMap[sortedPackages[i]] => j < i

\* a finished call that placed a package after a hard dependency of it
C2_Witness ==
    /\ treePc = "done"
    /\ \E i, j \in DOMAIN sortedPackages :
          sortedPackages[j] \in dependencyMap[sortedPackages[i]]

\* C3: in the returned order, whenever Y is an optional dependency of placed
\* package X and Y is in the resolved closure, Y is placed strictly before X.
C3_OptionalDependencyFirst ==
    \A i \in DOMAIN sortedPackages :
        \A y \in optionalDependencyMap[sortedPackages[i]] \cap Closure :
            treePc \in {"sort", "done"} =>
                \E j \in DOMAIN sortedPackages : sortedPackages[j] = y /\ j < i

\* a finished call that placed a package after an optional dependency that
\* the resolver had added after it
C3_Witness ==
    /\ treePc = "done"
    /\ \E i, j \in DOMAIN sortedPackages :
          /\ sortedPackages[j] \in optionalDependencyMap[sortedPackages[i]]
          /\ IndexOf(alreadySorting, sortedPackages[i])
               < IndexOf(alreadySorting, sortedPackages[j])

\* C4: the closure never holds two descriptors of one name, whatever the
\* request list, the dependency graph and the interleaving of the entries.
C4_OneDescriptorPerName ==
    /\ NoDuplicates(convertedPackages)
    /\ NoDuplicates(sortedPackages \o convertedPackages)

\* a diamond: two requested packages both hard-depend on a third, and all
\* three are in the closure
C4_Witness ==
    /\ treePc = "sort" /\ sortedPackages = <<>>
    /\ \E a, b, c \in Names :
          /\ a # b /\ packages = <<a, b>>
          /\ c \in dependencyMap[a] /\ c \in dependencyMap[b]
          /\ {a, b, c} \subseteq Range(convertedPackages)

\* C5: for every dependency graph, cyclic ones included, resolution followed
\* by the ordering loop terminates, provided every descriptor fetch settles.
C5_Terminates == <>(treePc = "done")

\* a finished call on a graph with a hard-dependency cycle in its closure
C5_Witness ==
    /\ treePc = "done"
    /\ \E a, b \in Closure :
          a # b /\ b \in dependencyMap[a] /\ a \in dependencyMap[b]

\* C6: when the closure is two packages that hard-depend on each other, the
\* ordering loop places neither and the residual it reports is both of them.
C6_CycleResidual ==
    \A a, b \in Names :
        ( /\ treePc = "done" /\ a # b /\ Closure = {a, b}
          /\ b \in dependencyMap[a] /\ a \in dependencyMap[b] )
        => sortedPackages = <<>> /\ Range(convertedPackages) = {a, b}

\* a finished call whose closure is such a pair, reached by requesting one
C6_Witness ==
    /\ treePc = "done" /\ Len(packages) = 1 /\ Len(convertedPackages) = 2
    /\ \E a, b \in Range(convertedPackages) :
          a # b /\ b \in dependencyMap[a] /\ a \in dependencyMap[b]


\* the names reachable from S along the edges of deps
RECURSIVE ReachableFrom(_, _)
ReachableFrom(S, deps) ==
    LET next == S \cup UNION {deps[n] : n \in S} IN
    IF next = S THEN S ELSE ReachableFrom(next, deps)

HardAndOptional == [n \in Names |-> dependencyMap[n] \cup optionalDependencyMap[n]]

C16_AbsentDependencyDoesNotBlock ==
    treePc = "done" =>
        \A p \in Range(convertedPackages) :
            \E d \in (dependencyMap[p] \cup optionalDependencyMap[p]) \cap Closure :
                d \notin Range(sortedPackages)

\* the order and the residual share no package, the order names none
\* twice, and together they hold what the resolver added
Partition ==
    treePc \in {"sort", "done"} =>
        /\ NoDuplicates(sortedPackages \o convertedPackages)
        /\ Closure = Range(alreadySorting) \ fetchFailed

\* a pass of the loop appends the packages it places in the order they
\* have in convertedPackages, and leaves the others in theirs
StablePass ==
    treePc = "sort" =>
        LET placed == Range(convertedPackages) \ Range(convertedPackages') IN
        /\ sortedPackages' = sortedPackages \o
              SelectSeq(convertedPackages, LAMBDA pkg : pkg \in placed)
        /\ convertedPackages' =
              SelectSeq(convertedPackages, LAMBDA pkg : pkg \notin placed)

\* C38: the ordering loop partitions the closure: the order has no name
\* twice, shares none with the residual, and both together are the closure;
\* the packages placed in one pass stand in their closure order.
C38_OrderingPartitions == []Partition /\ [][StablePass]_vars

\* a finished call that placed two packages in its first pass and a third,
\* which the resolver had added before them, in a later one
C38_Witness ==
    /\ treePc = "done" /\ Len(sortedPackages) = 3
    /\ \A i \in {1, 2} :
          /\ dependencyMap[sortedPackages[i]] = {}
          /\ optionalDependencyMap[sortedPackages[i]] \cap Closure = {}
    /\ sortedPackages[1] \in optionalDependencyMap[sortedPackages[3]]
    /\ IndexOf(alreadySorting, sortedPackages[3])
          < IndexOf(alreadySorting, sortedPackages[1])

\* the package is in the closure and its hard dependencies are all placed
HardDependenciesPlaced(p) ==
    p \in Closure /\ dependencyMap[p] \subseteq Range(sortedPackages)

\* two packages of the closure that are optional dependencies of each other
OptionalCycle(a, b) ==
    /\ a # b /\ {a, b} \subseteq Closure
    /\ b \in optionalDependencyMap[a] /\ a \in optionalDependencyMap[b]

\* the optional dependencies inside the closure
OptionalInClosure == [n \in Names |-> optionalDependencyMap[n] \cap Closure]

\* the package is in the closure and on a cycle of optional dependencies
\* inside it
OnOptionalCycle(p) ==
    p \in Closure /\ p \in ReachableFrom(OptionalInClosure[p], OptionalInClosure)

\* C39 as stated: when the call has returned, a package whose hard
\* dependencies were all placed is placed itself, whatever the optional
\* dependency edges in the closure, cycles included.
C39_OptionalNeverBlocks ==
    treePc = "done" =>
        \A p \in Names : HardDependenciesPlaced(p) => p \in Range(sortedPackages)

\* C39, amended: a package whose hard dependencies were all placed is
\* placed exactly if its optional dependencies in the closure were all
\* placed; the packages of an optional-dependency cycle are left unplaced.
C39_OptionalBlocksWhileUnplaced ==
    treePc = "done" =>
        /\ \A p \in Names : HardDependenciesPlaced(p) =>
              (p \in Range(sortedPackages) <=>
                  optionalDependencyMap[p] \cap Closure
                      \subseteq Range(sortedPackages))
        /\ \A p \in Names : OnOptionalCycle(p) => p \notin Range(sortedPackages)

\* a finished call that left unplaced two packages without hard
\* dependencies that are optional dependencies of each other
C39_Witness ==
    /\ treePc = "done"
    /\ \E a, b \in Range(convertedPackages) :
          /\ OptionalCycle(a, b)
          /\ HardDependenciesPlaced(a) /\ HardDependenciesPlaced(b)
          /\ dependencyMap[a] = {} /\ dependencyMap[b] = {}

(***************************************************************************)
(* Claims about WPMv2.require (checked under Spec and FairSpec).           *)
(***************************************************************************)
TopLevel == {r \in DOMAIN requires : requires[r].top}

\* two top-level calls one of which was made before the other settled
Overlapping(r1, r2) ==
    /\ r1 \in TopLevel /\ r2 \in TopLevel /\ r1 # r2
    /\ r1 \in requires[r2].during \/ r2 \in requires[r1].during

TaskSettled(t) == tasks[t].st \in {"done", "failed"}

\* the promise call r holds for package p
PromiseOf(r, p) == requires[r].map[p]

Independent(asked) ==
    \A p \in asked : dependencyMap[p] = {} /\ optionalDependencyMap[p] \cap asked = {}

\* C7: when a call names several mutually independent packages and the
\* descriptor fetch of exactly one of them fails, the order and the promise
\* map hold exactly the other requested packages, and when the call
\* completes these are attached and live.
C7_OthersStillInstalled ==
    \A r \in TopLevel :
        LET asked == Range(requires[r].packages)
            others == asked \ requires[r].failed IN
        ( /\ requires[r].st # "resolving" /\ Cardinality(asked) >= 2
          /\ Independent(asked)
          /\ Cardinality(requires[r].failed) = 1 /\ requires[r].failed \subseteq asked )
        => /\ Range(requires[r].sorted) = others
           /\ DOMAIN requires[r].map = others
           /\ requires[r].st = "done" => others \subseteq dom \cap live

\* a completed call that named three independent packages, one of which
\* failed to resolve
C7_Witness ==
    \E r \in TopLevel :
        /\ requires[r].st = "done" /\ Len(requires[r].packages) = 3
        /\ Independent(Range(requires[r].packages))
        /\ Cardinality(requires[r].failed) = 1
        /\ Cardinality(Range(requires[r].packages) \cap dom) = 2

\* C8: a top-level call of require never rejects.
C8_NeverRejects == \A r \in TopLevel : requires[r].st # "rejected"

\* C9: a task that awaited the promise of a dependency whose install failed
\* still goes through its own attach and activate steps.
C9_DependentStillRuns ==
    \A t \in DOMAIN tasks :
        (TaskSettled(t) /\ \E d \in tasks[t].awaits : tasks[d].st = "failed")
            => tasks[t].ran

\* C10: every top-level call of require eventually settles, also when the
\* script of a package being activated requires a closure that holds it.
C10_EveryCallSettles ==
    \A k \in 1..(MaxTop + Cardinality(Names)) :
        (k \in DOMAIN requires /\ requires[k].top)
            ~> (k \in DOMAIN requires /\ Settled(k))

\* C14: whatever the sequence of require calls, no package is inserted into
\* the document twice and none has its scripts run twice; a task started
\* for a package that is attached and live settles without attaching or
\* activating anything.
C14_AtMostOnce ==
    /\ \A p \in Names : attachCount[p] <= 1 /\ bootCount[p] <= 1
    /\ \A t \in DOMAIN tasks :
          tasks[t].st = "done" /\ ~tasks[t].alreadyInstalled
              => attachCount[tasks[t].name] = 1 /\ bootCount[tasks[t].name] = 1

\* a later call got a task of its own for a package an earlier task had
\* installed, and both tasks are done
C14_Witness ==
    \E t1, t2 \in DOMAIN tasks :
        /\ t1 < t2 /\ tasks[t1].name = tasks[t2].name
        /\ tasks[t1].st = "done" /\ tasks[t2].st = "done"
        /\ ~tasks[t1].alreadyInstalled /\ tasks[t2].alreadyInstalled
        /\ attachCount[tasks[t1].name] = 1 /\ bootCount[tasks[t1].name] = 1

\* the closure call r resolved
ClosureOf(r) == Range(resolved(requires[r].packages, requires[r].failed).converted)

\* C17: when the ordering loop left packages of a call's closure unplaced,
\* the call still gives a promise to exactly the placed packages, which are
\* all the packages whose dependencies could be placed, and when the call
\* has returned these are attached and live.
C17_PlacedStillInstalled ==
    \A r \in DOMAIN requires :
        (requires[r].st # "resolving"
            /\ ClosureOf(r) \ Range(requires[r].sorted) # {})
        => /\ DOMAIN requires[r].map = Range(requires[r].sorted)
           /\ \A p \in ClosureOf(r) :
                 ( /\ dependencyMap[p] \subseteq DOMAIN requires[r].map
                   /\ optionalDependencyMap[p] \cap ClosureOf(r)
                         \subseteq DOMAIN requires[r].map )
                 => p \in DOMAIN requires[r].map
           /\ requires[r].st = "done"
                 => DOMAIN requires[r].map \subseteq dom \cap live

\* a call that has returned, with a package installed and others left
\* unplaced
C17_Witness ==
    \E r \in TopLevel :
        /\ requires[r].st = "done"
        /\ ClosureOf(r) \ Range(requires[r].sorted) # {}
        /\ requires[r].sorted # <<>>
        /\ Range(requires[r].sorted) \subseteq dom \cap live

\* C11: a task has not begun its attach step (the lookup in the document,
\* the fetch and the insertion) unless the task of every hard and optional
\* dependency held by the closure of the call that started it is done, tasks
\* shared from another running call included.
C11_DependenciesFirst ==
    \A t \in DOMAIN tasks :
        tasks[t].ran =>
            \A d \in (dependencyMap[tasks[t].name] \cup optionalDependencyMap[tasks[t].name])
                        \cap DOMAIN requires[tasks[t].owner].map :
                tasks[PromiseOf(tasks[t].owner, d)].st = "done"

\* a package installed after a hard and an optional dependency, one of them
\* a task shared from another call
C11_Witness ==
    \E t \in DOMAIN tasks :
        /\ tasks[t].st = "done" /\ ~tasks[t].alreadyInstalled
        /\ \E d \in DOMAIN requires[tasks[t].owner].map :
              /\ d \in dependencyMap[tasks[t].name] \cup optionalDependencyMap[tasks[t].name]
              /\ tasks[PromiseOf(tasks[t].owner, d)].owner # tasks[t].owner

\* C12: an all-installed callback registered by a package that top-level
\* call R installed is called only when no package task of R's closure is
\* still pending.
C12_CallbackAfterAllTasks ==
    \A i \in DOMAIN invoked : invoked[i].unfinished = {}

\* the callbacks call r has called so far, in the order of the calls
CalledBy(r) == SelectSeq(invoked, LAMBDA e : e.by = r)

\* C13: the callbacks of the list a top-level call popped are called in the
\* order they were registered in, no two of them are pending at once, and
\* the call returns only after all of them were called.
C13_CallbacksInOrderOneAtATime ==
    \A r \in TopLevel :
        /\ Len(CalledBy(r)) <= Len(requires[r].popped)
        /\ \A i \in DOMAIN CalledBy(r) : CalledBy(r)[i].cb = requires[r].popped[i]
        /\ Cardinality({c \in runningCallbacks : c.by = r}) <= 1
        /\ requires[r].st = "done" =>
              /\ Len(CalledBy(r)) = Len(requires[r].popped)
              /\ {c \in runningCallbacks : c.by = r} = {}

\* a call that popped two callbacks and has returned
C13_Witness ==
    \E r \in TopLevel :
        /\ requires[r].st = "done" /\ Len(requires[r].popped) = 2
        /\ requires[r].popped[1] > requires[r].popped[2]

\* C33: whenever every call of require made so far has settled, fulfilled
\* or rejected, the registry of running requires and the stack of
\* all-installed callback lists are both empty.
C33_RegistriesEmptyWhenIdle ==
    (\A r \in DOMAIN requires : Settled(r)) =>
        /\ runningRequiresPromiseMap = <<>>
        /\ allInstalledCallbacksStack = <<>>

\* C34: a top-level call naming package P that is made after the install
\* task of P failed in another top-level call gets a task of its own for
\* P, not the failed one.
C34_NewAttemptAfterFailure ==
    \A r \in TopLevel : \A p \in DOMAIN requires[r].map :
        PromiseOf(r, p) \notin requires[r].after

\* C36: when a top-level call with bootstrap true has completed, every
\* package of its order is live, also those whose task it shared from an
\* overlapping call that asked for bootstrap false.
C36_LiveWhenBootstrapAsked ==
    \A r \in TopLevel :
        (requires[r].bootstrap /\ requires[r].st = "done") =>
            Range(requires[r].sorted) \subseteq live

\* the callbacks registered through wpm.onAllInstalled so far: those
\* waiting in a list of the stack, those of a list a call popped, and those
\* called at once
Registered ==
    UNION {Range(allInstalledCallbacksStack[i].callbacks) :
               i \in DOMAIN allInstalledCallbacksStack}
    \cup UNION {Range(requires[r].popped) : r \in DOMAIN requires}
    \cup {invoked[i].cb : i \in DOMAIN invoked}

\* the number of times the callback was called
TimesInvoked(cb) == Cardinality({i \in DOMAIN invoked : invoked[i].cb = cb})

\* C37: no callback registered through wpm.onAllInstalled is called twice,
\* and once every call of require and every task has settled, each has been
\* called once, whether or not a task failed.
C37_EveryCallbackOnce ==
    /\ \A cb \in Registered : TimesInvoked(cb) <= 1
    /\ ((\A r \in DOMAIN requires : Settled(r)) /\
        (\A t \in DOMAIN tasks : TaskSettled(t))) =>
            \A cb \in Registered : TimesInvoked(cb) = 1

(***************************************************************************)
(* The two models of findCompletePackageTreeSorted agree: whatever the     *)
(* interleaving of the entries, the packages placed are those the function *)
(* places for the same failed fetches.                                     *)
(***************************************************************************)
TreeAgrees ==
    treePc = "done" =>
        /\ Range(sortedPackages)
              = Range(findCompletePackageTreeSorted(packages, fetchFailed))
        /\ Range(alreadySorting) = Range(resolved(packages, fetchFailed).already)

\* C28: the installed event of a package is dispatched only by a task that
\* newly attached the package, and only after the activation has completed,
\* every nested require it issued included; a task that found the package in
\* the document never dispatches it
C28_InstalledEventAfterActivation ==
    \A t \in packageInstalled :
        /\ ~tasks[t].alreadyInstalled
        /\ attachCount[tasks[t].name] = 1
        /\ bootCount[tasks[t].name] = 1
        /\ \A q \in tasks[t].nested : requires[q].st = "done"

\* the event of a package whose script issued a nested require, while
\* another task found its package in the document
C28_Witness ==
    /\ \E t \in packageInstalled : tasks[t].nested # {}
    /\ \E t \in DOMAIN tasks :
          tasks[t].alreadyInstalled /\ tasks[t].st = "done"

(***************************************************************************)
(* Claims about the options of a package (checked under SpecOptions).      *)
(***************************************************************************)
\* C18: a package requested with a global override that sets appendMethod
\* is attached with the appendMethod of the override, whatever the value of
\* the package itself or of its entry is
C18_OverrideAppendMethodWins ==
    (/\ optionsPc \in {"attached", "installed"}
     /\ installedWith.appendMethod # Undefined
     /\ overrideOptions.appendMethod # Undefined)
        => installedWith.appendMethod = toLowerCase(overrideOptions.appendMethod)

\* an entry that says "append" under an override that says "prepend"
C18_Witness ==
    /\ optionsPc = "attached"
    /\ entryKind \in EntriesWithOptions
    /\ entryOptions.appendMethod = "append"
    /\ overrideOptions.appendMethod = "prepend"
    /\ installedWith.appendMethod = "prepend"

\* the value of the highest source that defines the field: the global
\* override, the entry, the package itself, the defaults
Precedence(f) ==
    IF overrideOptions[f] # Undefined THEN overrideOptions[f]
    ELSE IF entryOptions[f] # Undefined THEN entryOptions[f]
    ELSE IF newWPMPackage[f] # Undefined THEN newWPMPackage[f]
    ELSE defaultOptions[f]

FoundEntry(c) == fetchDomCalls[c].entry # 0

\* the call is past the test of the cached entry
Tested(c) == fetchDomCalls[c].pc # "awaitCached"

\* the call returned the document of the entry it found, without a request
ServedFromCache(c) ==
    /\ fetchDomCalls[c].pc = "returned"
    /\ fetchDomCalls[c].dom = fetchDomCalls[c].entry
    /\ fetchDomCalls[c].requests = 0

\* C20 as stated: a fetchDom issued less than cacheTimeout after the
\* timestamp of the entry a successful fetchDom left in the cache returns
\* the cached document and issues no network request
C20_IssuedInWindowServedFromCache ==
    \A c \in DOMAIN fetchDomCalls :
        (/\ FoundEntry(c) /\ Tested(c)
         /\ fetchDomCalls[c].issuedAt - fetches[fetchDomCalls[c].entry].timestamp
               < cacheTimeout)
            => ServedFromCache(c)

\* C20: a fetchDom that finds the entry of a successful fetchDom returns the
\* cached document and issues no network request if less than cacheTimeout
\* has passed since the timestamp of the entry at the moment its await of
\* the entry resumes
C20_TestedInWindowServedFromCache ==
    \A c \in DOMAIN fetchDomCalls :
        (/\ FoundEntry(c) /\ Tested(c)
         /\ fetchDomCalls[c].checkedAt - fetches[fetchDomCalls[c].entry].timestamp
               < cacheTimeout)
            => ServedFromCache(c)

\* a second call, issued some time after the first fetch completed, is
\* served from the cache
C20_Witness ==
    \E c \in DOMAIN fetchDomCalls :
        /\ FoundEntry(c) /\ ServedFromCache(c)
        /\ fetchDomCalls[c].issuedAt > fetches[fetchDomCalls[c].entry].timestamp

\* the fetchDom call returned a document it did not request itself
DomFromCache(c) ==
    /\ fetchDomCalls[c].pc = "returned"
    /\ fetchDomCalls[c].requests = 0

\* the fetchDom call was issued when the entry it found was too old
DomIssuedStale(c) ==
    /\ FoundEntry(c)
    /\ fetchDomCalls[c].issuedAt - fetches[fetchDomCalls[c].entry].timestamp
          >= cacheTimeout

\* the fetchAssets call was issued when the cache held an entry too old
AssetsIssuedStale(c) ==
    /\ fetchAssetsCalls[c].entry # 0
    /\ fetchAssetsCalls[c].issuedAt - fetchAssetsCalls[c].entryTimestamp
          >= cacheTimeout

\* C21: fetchDom and fetchAssets never return a cached payload whose
\* timestamp is cacheTimeout or more in the past, and a call issued after
\* the window has elapsed issues a new request and returns its result
C21_NeverReturnsStale ==
    /\ \A c \in DOMAIN fetchDomCalls :
          /\ DomFromCache(c) =>
                fetchDomCalls[c].checkedAt
                    - fetches[fetchDomCalls[c].dom].timestamp < cacheTimeout
          /\ (DomIssuedStale(c) /\ Tested(c)) =>
                /\ fetchDomCalls[c].requests = 1
                /\ fetchDomCalls[c].promise # fetchDomCalls[c].entry
                /\ fetchDomCalls[c].pc = "returned" =>
                      fetchDomCalls[c].dom = fetchDomCalls[c].promise
    /\ \A c \in DOMAIN fetchAssetsCalls :
          /\ (fetchAssetsCalls[c].pc = "returned"
                /\ fetchAssetsCalls[c].requests = 0) =>
                /\ fetchAssetsCalls[c].assets = fetchAssetsCalls[c].entry
                /\ fetchAssetsCalls[c].issuedAt
                      - fetchAssetsCalls[c].entryTimestamp < cacheTimeout
          /\ AssetsIssuedStale(c) =>
                /\ fetchAssetsCalls[c].requests = 1
                /\ fetchAssetsCalls[c].pc = "returned" =>
                      fetchAssetsCalls[c].assets = c

\* a fetchDom call and a fetchAssets call, each issued after the window of
\* the entry it found, returned what they requested themselves
C21_Witness ==
    /\ \E c \in DOMAIN fetchDomCalls :
          /\ DomIssuedStale(c)
          /\ fetchDomCalls[c].pc = "returned"
          /\ fetchDomCalls[c].dom # fetchDomCalls[c].entry
    /\ \E c \in DOMAIN fetchAssetsCalls :
          /\ AssetsIssuedStale(c)
          /\ fetchAssetsCalls[c].pc = "returned"
          /\ fetchAssetsCalls[c].assets = c

\* the fetches of the url that are in flight
InFlight(url) ==
    {f \in DOMAIN fetches : fetches[f].url = url /\ fetches[f].st = "pending"}

\* C22: at every instant at most one network fetch of a location is in
\* flight for the descriptor cache: concurrent fetchDom callers share it,
\* when no entry exists and when the existing entry is stale
C22_OneDomFetchInFlight ==
    \A url \in Urls : Cardinality(InFlight(url)) <= 1

\* the fetchAssets calls whose request of the url is in flight
AssetsInFlight(url) ==
    {c \in DOMAIN fetchAssetsCalls :
        fetchAssetsCalls[c].url = url /\ fetchAssetsCalls[c].pc = "awaitFetch"}

\* C23: concurrent fetchAssets callers of the same manifest location share
\* one fetch: at most one request per key is in flight at any instant
C23_OneAssetsFetchInFlight ==
    \A url \in Urls : Cardinality(AssetsInFlight(url)) <= 1

\* C35: a call of fetchDom issued after the fetch of its location, the one
\* the cache holds, has failed makes a request of its own before it ends
C35_FreshRequestAfterFailure ==
    \A c \in DOMAIN fetchDomCalls :
        (fetchDomCalls[c].failedBefore /\
         fetchDomCalls[c].pc \in {"returned", "threw"}) =>
            fetchDomCalls[c].requests >= 1

\* the calls of fetchDom that call a of fetchDom with an alias has made
innerCalls(a) == {c \in DOMAIN fetchDomCalls : fetchDomCalls[c].caller = a}

\* call a was issued after a call with its alias had returned document f,
\* within the staleness window of f
RepeatedInWindow(a, f) ==
    /\ f \in aliasCalls[a].previous
    /\ cacheFresh(fetches[f].timestamp, aliasCalls[a].issuedAt)

\* x comes before y in sequence s
Before(s, x, y) ==
    \E i, j \in DOMAIN s : i < j /\ s[i] = x /\ s[j] = y

\* C31 as stated: a call of fetchDom with an alias that repeats one which
\* returned a document, within the staleness window, is served under the
\* alias: it calls fetchDom with no candidate
C31_AliasKeyHit ==
    \A a \in DOMAIN aliasCalls :
        (\E f \in DOMAIN fetches : RepeatedInWindow(a, f)) =>
            aliasCalls[a].tried = 0

\* C31, amended: the document is cached under the candidate it was fetched
\* from.  The repeated call tries the candidates in order again; it makes
\* no request for the candidates before that one, and none for that one
\* if its entry is fresh when tested, and then returns the same document
C31_CandidateKeyHit ==
    \A a \in DOMAIN aliasCalls : \A f \in DOMAIN fetches :
        RepeatedInWindow(a, f) =>
            /\ aliasCalls[a].tried >= 1
            /\ \A c \in innerCalls(a) :
                  /\ Before(lookupRepoAlias(aliasCalls[a].alias),
                            fetchDomCalls[c].url, fetches[f].url) =>
                        /\ fetchDomCalls[c].requests = 0
                        /\ fetchDomCalls[c].pc \in {"awaitCached", "threw"}
                  /\ (/\ fetchDomCalls[c].url = fetches[f].url
                      /\ fetchDomCalls[c].checkedAt >= 0
                      /\ cacheFresh(fetches[f].timestamp,
                                    fetchDomCalls[c].checkedAt)) =>
                        /\ fetchDomCalls[c].requests = 0
                        /\ fetchDomCalls[c].dom = f
                        /\ aliasCalls[a].pc = "returned" =>
                              aliasCalls[a].dom = f

\* a repeated call tried both candidates again and returned the document
\* of the earlier call
C31_Witness ==
    \E a \in DOMAIN aliasCalls : \E f \in DOMAIN fetches :
        /\ RepeatedInWindow(a, f)
        /\ aliasCalls[a].pc = "returned" /\ aliasCalls[a].dom = f
        /\ aliasCalls[a].tried = 2
        /\ \A c \in innerCalls(a) : fetchDomCalls[c].requests = 0

(***************************************************************************)
(* Claims about the asset sync (checked under SpecSync, FairSpecSync).     *)
(***************************************************************************)
\* the declared assets for which it is not the case that both manifests
\* have an entry with the same hash
NeedsTransfer ==
    {a \in Range(packageAssets) :
        ~(repoAssets[a] # 0 /\ localAssets[a] # 0
            /\ repoAssets[a] = localAssets[a])}

\* C24: a declared asset is fetched and staged if and only if it is not the
\* case that both manifests have an entry for it with equal hash; one POST
\* is issued when an asset was staged, none when none was
C24_TransferWhatDiffers ==
    /\ Range(formData) \subseteq DOMAIN assetPromises
    /\ DOMAIN assetPromises \subseteq NeedsTransfer
    /\ syncPc \in {"awaitAssetPromises", "awaitPost"} =>
          DOMAIN assetPromises = NeedsTransfer
    /\ posts <= 1
    /\ posts = 1 => (Range(formData) = NeedsTransfer /\ NeedsTransfer # {})
    /\ syncPc = "done" => posts = (IF NeedsTransfer # {} THEN 1 ELSE 0)

\* one asset differs and is transferred, the other is the same and is not
C24_Witness ==
    /\ syncPc = "done" /\ posts = 1
    /\ Range(packageAssets) = Assets
    /\ Range(formData) = {"x.png"}
    /\ repoAssets["y.png"] # 0

\* C25: if fetching the bytes of an asset fails, only the asset batch of the
\* package is abandoned: the install task still settles and every require
\* call that awaits it still completes
C25_TaskSettlesAfterAssetFailure ==
    (\E a \in DOMAIN assetPromises : assetPromises[a] = "neverSettles")
        ~> (/\ syncPc \in {"done", "rejected"}
            /\ \A r \in DOMAIN syncRequires : syncRequires[r] # "awaiting")

(***************************************************************************)
(* Claims about whole-repository entries (checked under SpecRepo).         *)
(***************************************************************************)
\* C26: when one package of a whole repository has a missing or malformed
\* descriptor only that package is skipped: every other package of the
\* repository, those listed after it too, is added to the closure
C26_OnlyOffendingPackageSkipped ==
    (repoPc \in {"done", "caught"} /\ repoIndex > 0) =>
        \A i \in DOMAIN repoPackages :
            (repoPackages[i].descriptor = "ok"
                /\ repoPackages[i].name \notin fetchFailed)
              => repoPackages[i].name \in Range(convertedPackages)

\* C27: a package whose effective bootstrap flag is false is attached but
\* left inert by its install task: it is not activated, it does not get the
\* live marker and no installed event is dispatched for it
C27_NoBootstrapLeftInert ==
    (optionsPc = "installed" /\ Precedence("bootstrap") = "false") =>
        /\ installedWith.bootstrap = "false"
        /\ installedWith.live # "true"
        /\ installedWith.packageInstalled = "false"

(***************************************************************************)
(* Claims about the bootloader (checked under SpecBoot).                   *)
(***************************************************************************)
\* C29: the bootloader executes the require steps strictly one after the
\* other in list order: the require call of a step is not started before
\* the require call of the step before it has completed
C29_StepsSequential ==
    \A k \in DOMAIN bootLog :
        bootLog[k].type = "require" =>
            \A j \in 1..(k - 1) :
                bootLog[j].type = "require" =>
                    /\ bootLog[j].step < bootLog[k].step
                    /\ \E c \in (j + 1)..(k - 1) :
                          bootLog[c] = [type |-> "completed",
                                        step |-> bootLog[j].step]

\* the bootloader ran to its end with two steps or more
C29_Witness ==
    /\ bootPc = "loaded"
    /\ Len(SelectSeq(bootLog, LAMBDA e : e.type = "require")) >= 2

\* C30: the descriptor of a package whose name exists in the document is
\* fetched from the local repository, except when the caller specified a
\* repository override: then it is fetched from the caller's repository
C30_LocalUnlessCallerOverride ==
    (optionsPc \notin {"entry", "added"} /\ localPackageDom) =>
        fetchRepository = IF overrideOptions.repository # Undefined
                          THEN overrideOptions.repository
                          ELSE LocalRepositoryURL

\* what a dependency is declared with, under the global override
DeclaredUnderOverride(f) ==
    IF overrideOptions[f] # Undefined THEN overrideOptions[f]
    ELSE WPMPackage(RepositoryUrl)[f]

\* C32: the options given for a requested package are not applied to its
\* dependencies: a dependency has its declared repository and the fields
\* of the global override, nothing of the requesting entry; its
\* descriptor is fetched accordingly (from the document if it is there)
\* and its install task gets these options
C32_DependencyWithoutParentOptions ==
    (entryKind = "dependency" /\ optionsPc # "entry") =>
        /\ \A f \in OptionFields : wpmPackage[f] = DeclaredUnderOverride(f)
        /\ optionsPc # "added" =>
              fetchRepository = IF localPackageDom THEN LocalRepositoryURL
                                ELSE DeclaredUnderOverride("repository")
        /\ optionsPc \in {"merged", "attached", "installed"} =>
              \A f \in InstallFields : options[f] = DeclaredUnderOverride(f)

\* a dependency of an entry that asks for no bootstrap and another
\* repository is fetched from its declared repository and activated
C32_Witness ==
    /\ entryKind = "dependency" /\ optionsPc = "installed"
    /\ parentOptions.bootstrap = "false"
    /\ parentOptions.repository = "/repoB"
    /\ overrideOptions = NoOptions
    /\ fetchRepository = RepositoryUrl
    /\ installedWith.bootstrap = "true"

\* the number of times the callback of the c-th call of WPMBoot.onLoaded
\* was called
TimesLoadedInvoked(c) ==
    Cardinality({i \in DOMAIN loadedInvoked : loadedInvoked[i] = c})

\* C40: no callback passed to WPMBoot.onLoaded is called twice, and when
\* the bootloader has run to its end every callback passed so far has been
\* called once, those passed after it had finished included.
C40_LoadedCallbackOnce ==
    /\ \A c \in 1..onLoadedCalls : TimesLoadedInvoked(c) <= 1
    /\ bootPc = "loaded" =>
          \A c \in 1..onLoadedCalls : TimesLoadedInvoked(c) = 1

=============================================================================
